---- MODULE Spec2Model ----
(***************************************************************************)
(* Model of the hybrid retrieval engine of xynenyx-rag:                    *)
(*   app/retrieval/hybrid_retriever.py  (RRF fusion, hybrid retrieve)      *)
(*   app/retrieval/multi_query.py       (multi-query merge)                *)
(*   app/retrieval/retriever.py         (vector-only retrieve)             *)
(*   app/retrieval/reranker.py          (cross-encoder rerank)             *)
(*   app/services/cache.py              (QueryCache, EmbeddingCache)       *)
(*   app/routers/query.py               (the query handler)                *)
(*                                                                         *)
(* Encodings.                                                              *)
(*  - A chunk_id string is an integer whose order is the lexical order of  *)
(*    the strings: 0 is "", 1 is "None" (what str(None) yields), 2.. are   *)
(*    "c1" < "c2" < ...  ("None" < "c1" because 'N' < 'c').                 *)
(*    None (of Python) is the integer None below.                          *)
(*  - A finite float is an integer number of units of 1/One, where One is  *)
(*    the product of (rrf_k + r) over the ranks r the model can produce,   *)
(*    so 1/(rrf_k + r) is exact.  +inf and -inf are PosInf and NegInf,     *)
(*    beyond every finite value of the model, so that Python's order on    *)
(*    floats is the order on the integers; NaN is a value of its own       *)
(*    that every operation tests for before it compares.                   *)
(***************************************************************************)
EXTENDS Integers, Sequences, FiniteSets, TLC

VARIABLES
    bm25_results,    \* _fuse_results argument: lexical hits
    vector_results,  \* _fuse_results argument: vector hits
    fuse_top_k,      \* _fuse_results argument: top_k
    sorted_results,  \* _fuse_results local: the sorted list before the slice
    fused,           \* value returned by _fuse_results
    fuse_pc,         \* "idle" | "call" | "bm25" | "vector" | "sort" | "done"
    fuse_result_map, \* _fuse_results local: result_map, in insertion order
    fuse_rank        \* _fuse_results local: rank of the hit the running loop
                     \* processes next

fuse_vars == <<bm25_results, vector_results, fuse_top_k, sorted_results, fused, fuse_pc,
               fuse_result_map, fuse_rank>>

VARIABLES
    hy_env,     \* what the lexical retriever, the embedding call and the vector
                \* store do during one HybridRetriever.retrieve call
    hy_top_k,   \* HybridRetriever.retrieve argument: top_k
    hy_ret,     \* outcome of HybridRetriever.retrieve
    hy_pc       \* "idle" | "call" | "done"

hy_vars == <<hy_env, hy_top_k, hy_ret, hy_pc>>

VARIABLES
    raw_result,    \* a retrieval result (dict) handed to the formatting loop
    query_result,  \* the QueryResult built from it
    norm_pc        \* "idle" | "call" | "done"

norm_vars == <<raw_result, query_result, norm_pc>>

VARIABLES
    cache,        \* a cache object: self.cache, key -> entry
    ttl_seconds,  \* its self.ttl_seconds
    now,          \* datetime.now()
    cache_op,     \* the last operation on it: [op, key, value]
    cache_ret,    \* what the last get returned
    cache_pre     \* self.cache before the last operation

cache_vars == <<cache, ttl_seconds, now, cache_op, cache_ret, cache_pre>>

VARIABLES
    request,          \* the request the query handler was last called with
    request_time,     \* datetime.now() during that call
    x_user_id,        \* its X-User-ID header ("" when the header is missing)
    collaborators,    \* what the collaborators did during that call
    response,         \* the HTTP response of that call
    invoked,          \* the components that call invoked
    query_cache,      \* _query_cache.cache
    query_cache_pre,  \* _query_cache.cache when that call began
    reranker,         \* _reranker: [model_loaded, model_load_failed]
    requests_done     \* number of calls of the handler so far

api_vars == <<request, request_time, x_user_id, collaborators, response, invoked, query_cache,
              query_cache_pre, reranker, requests_done>>

VARIABLES
    rk_documents,     \* the candidates handed to the rerank stage
    rk_top_k,         \* top_k of the rerank call (request.top_k in the stage)
    rk_top_n,         \* request.rerank_top_n
    rk_env,           \* what the cross-encoder does: [load_ok, predict]
    rk_reranker,      \* the Reranker object: [model_loaded, model_load_failed]
    rk_ret,           \* the list the call returned
    rk_prev,          \* the Reranker object before the last call
    rk_calls,         \* the number of rerank calls made
    rk_pc             \* "idle" | "rerank" | "stage" | "done" | "staged" | "life"

rk_vars == <<rk_documents, rk_top_k, rk_top_n, rk_env, rk_reranker, rk_ret, rk_prev,
             rk_calls, rk_pc>>

VARIABLES
    fl_results,       \* the results handed to filter_results
    fl_date_range,    \* date_range of the temporal filter: Absent or Some(range)
    fl_filters,       \* [company, investor, sector] of the entity filter
    fl_ret,           \* the list the call returned
    fl_pc             \* "idle" | "temporal" | "entity" | "temporal_done" | "entity_done"

fl_vars == <<fl_results, fl_date_range, fl_filters, fl_ret, fl_pc>>

VARIABLES
    mq_query,         \* the original query
    mq_given,         \* query_variations of the caller: Absent or Some(list)
    mq_env,           \* [llm, flags]: what the LLM and the sources do
    mq_variations,    \* what _generate_query_variations returned
    mq_is_list,       \* whether that value is a list
    mq_ran,           \* the query strings retrieve ran, in order
    mq_ret,           \* the outcome of retrieve
    mq_pc             \* "idle" | "expand" | "retrieve" | "expanded" | "retrieved"

mq_vars == <<mq_query, mq_given, mq_env, mq_variations, mq_is_list, mq_ran, mq_ret, mq_pc>>

VARIABLES
    bm_source,        \* the rows of document_chunks, in table order
    bm_obj,           \* the BM25RetrieverWrapper: [bm25, chunks, index_built]
    bm_op,            \* the last operation and its arguments
    bm_ret,           \* the outcome of the last call
    bm_pc             \* "idle" | "ready"

bm_vars == <<bm_source, bm_obj, bm_op, bm_ret, bm_pc>>

VARIABLES
    em_text,          \* the text to embed
    em_cache,         \* the EmbeddingCache before the call
    em_service,       \* what the embedding service answers to successive calls
    em_now,           \* the time of the call, in hours
    em_ret,           \* what the call did: [outcome, cache, calls, sleeps]
    em_pc             \* "idle" | "call" | "done"

em_vars == <<em_text, em_cache, em_service, em_now, em_ret, em_pc>>

VARIABLES
    fs_running,       \* FeedScheduler._running
    fs_scheduler,     \* the AsyncIOScheduler: "new" | "running" | "shutdown"
    fs_epoch,         \* number of start() calls that started the scheduler
    fs_tasks,         \* the tasks start() created, in creation order:
                      \* [kind, epoch, pc]
    fs_stale_load,    \* a refresh loop of an earlier start() has called
                      \* load_feeds after the stop() that followed that start
    fs_last,          \* the last call: [op, was_running], <<>> before any
    fs_calls,         \* number of start() and stop() calls made
    fs_pc             \* "idle" | "live"

fs_vars == <<fs_running, fs_scheduler, fs_epoch, fs_tasks, fs_stale_load, fs_last,
             fs_calls, fs_pc>>

\* the variables of the components the handler specifications leave alone
unit_vars == <<rk_vars, fl_vars, mq_vars, bm_vars, em_vars, fs_vars>>

vars == <<fuse_vars, hy_vars, norm_vars, cache_vars, api_vars, unit_vars>>

\* the variables of a component no call of which is in progress
FuseIdle ==
    /\ bm25_results = <<>>
    /\ vector_results = <<>>
    /\ fuse_top_k = 0
    /\ sorted_results = <<>>
    /\ fused = <<>>
    /\ fuse_pc = "idle"
    /\ fuse_result_map = <<>>
    /\ fuse_rank = 0

HyIdle ==
    /\ hy_env = <<>>
    /\ hy_top_k = 0
    /\ hy_ret = <<>>
    /\ hy_pc = "idle"

NormIdle ==
    /\ raw_result = <<>>
    /\ query_result = <<>>
    /\ norm_pc = "idle"

CacheIdle ==
    /\ cache = <<>>
    /\ ttl_seconds = 0
    /\ now = 0
    /\ cache_op = <<>>
    /\ cache_ret = <<>>
    /\ cache_pre = <<>>

ApiIdle ==
    /\ request = <<>>
    /\ request_time = 0
    /\ x_user_id = ""
    /\ collaborators = <<>>
    /\ response = <<>>
    /\ invoked = {}
    /\ query_cache = <<>>
    /\ query_cache_pre = <<>>
    /\ reranker = <<>>
    /\ requests_done = 0

RkIdle ==
    /\ rk_documents = <<>>
    /\ rk_top_k = 0
    /\ rk_top_n = 0
    /\ rk_env = <<>>
    /\ rk_reranker = <<>>
    /\ rk_ret = <<>>
    /\ rk_prev = <<>>
    /\ rk_calls = 0
    /\ rk_pc = "idle"

FlIdle ==
    /\ fl_results = <<>>
    /\ fl_date_range = <<>>
    /\ fl_filters = <<>>
    /\ fl_ret = <<>>
    /\ fl_pc = "idle"

MqIdle ==
    /\ mq_query = ""
    /\ mq_given = <<>>
    /\ mq_env = <<>>
    /\ mq_variations = <<>>
    /\ mq_is_list = TRUE
    /\ mq_ran = <<>>
    /\ mq_ret = <<>>
    /\ mq_pc = "idle"

BmIdle ==
    /\ bm_source = <<>>
    /\ bm_obj = <<>>
    /\ bm_op = <<>>
    /\ bm_ret = <<>>
    /\ bm_pc = "idle"

EmIdle ==
    /\ em_text = ""
    /\ em_cache = <<>>
    /\ em_service = <<>>
    /\ em_now = 0
    /\ em_ret = <<>>
    /\ em_pc = "idle"

FsIdle ==
    /\ fs_running = FALSE
    /\ fs_scheduler = "new"
    /\ fs_epoch = 0
    /\ fs_tasks = <<>>
    /\ fs_stale_load = FALSE
    /\ fs_last = <<>>
    /\ fs_calls = 0
    /\ fs_pc = "idle"

----------------------------------------------------------------------------
(* Bounds *)

\* number of distinct real chunk ids "c1".."cN"
NChunks == 2
\* longest hit list a retriever returns in the model
MaxLen == 3
\* largest top_k passed to _fuse_results in the model
MaxTopK == 3

----------------------------------------------------------------------------
(* Values *)

\* float("inf"), float("-inf"), float("nan") and None
PosInf == 1000000000
NegInf == -PosInf
NaN == PosInf + 1
None == NegInf - 1

EmptyId == 0
NoneStr == 1
RealIds == 2 .. (NChunks + 1)

\* str(x) for the chunk_id values of the model: str(None) is "None", a
\* string is returned as it is.
Str(x) == IF x = None THEN NoneStr ELSE x

\* settings.rrf_k
rrf_k == 60

RECURSIVE ProdTo(_)
ProdTo(n) == IF n = 0 THEN 1 ELSE (rrf_k + n) * ProdTo(n - 1)

\* the float 1.0, in model units
One == ProdTo(MaxLen)

rrf_score_bad(rank, k) == One \div (k + rank - 1)

\* rrf_score(rank, k) = 1.0 / (k + rank)
rrf_score(rank, k) == One \div (k + rank)

----------------------------------------------------------------------------
(* Sequences helpers *)

RECURSIVE SeqsUpTo(_, _)
SeqsUpTo(S, n) ==
    IF n = 0 THEN {<<>>}
    ELSE LET shorter == SeqsUpTo(S, n - 1)
         IN  shorter \cup {Append(s, x) : s \in {t \in shorter : Len(t) = n - 1}, x \in S}

Range(s) == {s[i] : i \in 1 .. Len(s)}

Take(s, n) == SubSeq(s, 1, IF n < Len(s) THEN n ELSE Len(s))

\* position of the entry of m whose chunk_id is id, 0 when there is none
PosOf(m, id) ==
    IF \E i \in 1 .. Len(m) : m[i].chunk_id = id
    THEN CHOOSE i \in 1 .. Len(m) : m[i].chunk_id = id
    ELSE 0

----------------------------------------------------------------------------
(* HybridRetriever._fuse_results *)

\* result_map is a dict: here the sequence of its values in insertion order.

NewEntryBm25(result, chunk_id) ==
    [chunk_id |-> chunk_id, rrf_score |-> 0,
     bm25_score |-> result.bm25_score, vector_score |-> None]

NewEntryVector(result, chunk_id) ==
    [chunk_id |-> chunk_id, rrf_score |-> 0,
     bm25_score |-> None, vector_score |-> result.vector_score]

\* one iteration of the loop over bm25_results
FuseBm25Step(result_map, result, rank) ==
    LET chunk_id == Str(result.chunk_id)
        rrf == rrf_score(rank, rrf_k)
        m1 == IF PosOf(result_map, chunk_id) = 0
              THEN Append(result_map, NewEntryBm25(result, chunk_id))
              ELSE result_map
        p == PosOf(m1, chunk_id)
    IN  IF chunk_id = EmptyId THEN result_map
        ELSE [m1 EXCEPT ![p].rrf_score = @ + rrf]

FuseVectorStep_assign(m, result, rank) ==
    LET chunk_id == Str(result.chunk_id)
        rrf == rrf_score(rank, rrf_k)
        m1 == IF PosOf(m, chunk_id) = 0
              THEN Append(m, NewEntryVector(result, chunk_id))
              ELSE m
        p == PosOf(m1, chunk_id)
    IN  IF chunk_id = EmptyId THEN m
        ELSE [m1 EXCEPT ![p].rrf_score = rrf,
                        ![p].vector_score = result.vector_score]

FuseVectorStep_dup(result_map, result, rank) ==
    LET chunk_id == Str(result.chunk_id)
        e == NewEntryVector(result, chunk_id)
    IN  IF chunk_id = EmptyId THEN result_map
        ELSE Append(result_map, [e EXCEPT !.rrf_score = rrf_score(rank, rrf_k)])

\* one iteration of the loop over vector_results
FuseVectorStep(result_map, result, rank) ==
    LET chunk_id == Str(result.chunk_id)
        rrf == rrf_score(rank, rrf_k)
        m1 == IF PosOf(result_map, chunk_id) = 0
              THEN Append(result_map, NewEntryVector(result, chunk_id))
              ELSE result_map
        p == PosOf(m1, chunk_id)
        m2 == [m1 EXCEPT ![p].rrf_score = @ + rrf]
    IN  IF chunk_id = EmptyId THEN result_map
        ELSE IF m2[p].vector_score = None
             THEN [m2 EXCEPT ![p].vector_score = result.vector_score]
             ELSE m2

RECURSIVE FuseBm25Loop(_, _, _)
FuseBm25Loop(result_map, results, rank) ==
    IF rank > Len(results) THEN result_map
    ELSE FuseBm25Loop(FuseBm25Step(result_map, results[rank], rank), results, rank + 1)

RECURSIVE FuseVectorLoop(_, _, _)
FuseVectorLoop(result_map, results, rank) ==
    IF rank > Len(results) THEN result_map
    ELSE FuseVectorLoop(FuseVectorStep(result_map, results[rank], rank), results, rank + 1)

\* result_map after both loops
FuseMap(bm25, vector) == FuseVectorLoop(FuseBm25Loop(<<>>, bm25, 1), vector, 1)

\* sorted(values, key=rrf_score, reverse=True): Python's sort is stable, and
\* with reverse=True entries of equal key keep their original order.
RECURSIVE InsertDesc_unstable(_, _)
InsertDesc_unstable(sorted, e) ==
    IF sorted = <<>> THEN <<e>>
    ELSE IF sorted[Len(sorted)].rrf_score > e.rrf_score
         THEN Append(sorted, e)
         ELSE Append(InsertDesc_unstable(SubSeq(sorted, 1, Len(sorted) - 1), e),
                     sorted[Len(sorted)])

RECURSIVE InsertDesc(_, _)
InsertDesc(sorted, e) ==
    IF sorted = <<>> THEN <<e>>
    ELSE IF sorted[Len(sorted)].rrf_score >= e.rrf_score
         THEN Append(sorted, e)
         ELSE Append(InsertDesc(SubSeq(sorted, 1, Len(sorted) - 1), e), sorted[Len(sorted)])

RECURSIVE SortByRrfPrefix(_, _)
SortByRrfPrefix(s, n) ==
    IF n = 0 THEN <<>> ELSE InsertDesc(SortByRrfPrefix(s, n - 1), s[n])

SortByRrfDesc(s) == SortByRrfPrefix(s, Len(s))

\* sorted_results, before the slice
FuseSorted(bm25, vector) == SortByRrfDesc(FuseMap(bm25, vector))

\* _fuse_results(bm25_results, vector_results, top_k)
FuseResults(bm25, vector, top_k) == Take(FuseSorted(bm25, vector), top_k)

----------------------------------------------------------------------------
(* Inputs of _fuse_results *)

RawIds == {None, EmptyId} \cup RealIds

\* the non-empty chunk ids of a list are pairwise different: a retriever
\* returns a chunk once
DistinctIds(ids) ==
    \A i, j \in 1 .. Len(ids) :
        (i # j /\ Str(ids[i]) = Str(ids[j])) => Str(ids[i]) = EmptyId

IdLists == {ids \in SeqsUpTo(RawIds, MaxLen) : DistinctIds(ids)}

\* lexical hits in rank order: the scores decrease with the rank
Bm25Hits(ids) ==
    [r \in 1 .. Len(ids) |->
        [chunk_id |-> ids[r], bm25_score |-> (Len(ids) - r + 1) * One]]

\* vector hits in rank order: similarities 1.0, 0.5, 0.33.. by rank
VectorHits(ids) ==
    [r \in 1 .. Len(ids) |->
        [chunk_id |-> ids[r], vector_score |-> One \div r]]

----------------------------------------------------------------------------
(* query.py: sanitize_float and the formatting of one result *)

\* dict.get(key): None when the key is absent
Get(d, key) == IF key \in DOMAIN d THEN d[key] ELSE None

\* Python truth value of an optional float: None and 0.0 are false, NaN and
\* the infinities are true
Truthy(x) == x # None /\ x # 0

\* a or b
Or(a, b) == IF Truthy(a) THEN a ELSE b

sanitize_float_nonan(value) ==
    IF value = PosInf \/ value = NegInf
    THEN (IF value > 0 THEN One ELSE 0)
    ELSE value

\* sanitize_float(value)
sanitize_float(value) ==
    IF value = NaN THEN 0
    ELSE IF value = PosInf \/ value = NegInf
         THEN (IF value > 0 THEN One ELSE 0)
         ELSE value

\* max(a, b) and min(a, b) of Python on floats that are not NaN
Max(a, b) == IF b > a THEN b ELSE a
Min(a, b) == IF b < a THEN b ELSE a

Clamp01_noclamp(x) == Max(0, x)

\* max(0.0, min(1.0, sanitized))
Clamp01(x) == Max(0, Min(One, x))

\* rerank_score or rrf_score or vector_score or similarity or 0.0
RawSimilarity(result) ==
    Or(Or(Or(Or(Get(result, "rerank_score"), Get(result, "rrf_score")),
             Get(result, "vector_score")),
          Get(result, "similarity")),
       0)

\* sanitize_float(float(x)) if x is not None else None
SanitizeOpt(x) == IF x # None THEN sanitize_float(x) ELSE None

\* one iteration of the formatting loop: the QueryResult of a result
FormatResult(result) ==
    [chunk_id |-> Str(IF "chunk_id" \in DOMAIN result THEN result.chunk_id ELSE EmptyId),
     similarity |-> Clamp01(sanitize_float(RawSimilarity(result))),
     rerank_score |-> SanitizeOpt(Get(result, "rerank_score")),
     bm25_score |-> SanitizeOpt(Get(result, "bm25_score")),
     vector_score |-> SanitizeOpt(Or(Get(result, "vector_score"), Get(result, "similarity"))),
     rrf_score |-> SanitizeOpt(Get(result, "rrf_score"))]

FormatResults(results) == [i \in 1 .. Len(results) |-> FormatResult(results[i])]

----------------------------------------------------------------------------
(* cache.py: EmbeddingCache and QueryCache *)

\* QueryCache._get_cache_key(query, filters): the dict {"query": query}
\* updated with the filters, dumped with sorted keys and hashed.  Two calls
\* get the same key exactly when the updated dicts are equal; the key is
\* modelled as that dict.
\* An Optional[...] whose values are not numbers (a dict, a list, a cached
\* value) is Absent for None and Some(v) for the value v.
Absent == <<>>
Some(v) == <<v>>

QueryCacheKey_noFilters(query, filters) == [k \in {"query"} |-> query]

QueryCacheKey(query, filters) ==
    IF filters = Absent \/ DOMAIN filters[1] = {}
    THEN [k \in {"query"} |-> query]
    ELSE filters[1] @@ [k \in {"query"} |-> query]

\* EmbeddingCache._get_cache_key(text): the hash of the text; the key is
\* modelled as the one-field dict of the text
EmbeddingCacheKey(text) == [k \in {"text"} |-> text]

CacheGet_noexpiry(c, key, ttl, t) ==
    IF key \notin DOMAIN c THEN [value |-> Absent, cache |-> c]
    ELSE [value |-> Some(c[key].value), cache |-> c]

\* get of either cache on the entry of key at time t: the returned value
\* (Absent for a miss) and the cache afterwards
CacheGet(c, key, ttl, t) ==
    IF key \notin DOMAIN c THEN [value |-> Absent, cache |-> c]
    ELSE IF t - c[key].timestamp > ttl
         THEN [value |-> Absent,
               cache |-> [k \in DOMAIN c \ {key} |-> c[k]]]
         ELSE [value |-> Some(c[key].value), cache |-> c]

\* set of either cache at time t
CacheSet(c, key, value, t) ==
    [k \in DOMAIN c \cup {key} |->
        IF k = key THEN [value |-> value, timestamp |-> t] ELSE c[k]]

\* clear()
CacheClear(c) == <<>>

QueryCacheGet_miss(c, query, filters, ttl, t) == [value |-> Absent, cache |-> c]

\* QueryCache.get(query, filters)
QueryCacheGet(c, query, filters, ttl, t) == CacheGet(c, QueryCacheKey(query, filters), ttl, t)

QueryCacheSet_skip(c, query, results, filters, t) == c

\* QueryCache.set(query, results, filters)
QueryCacheSet(c, query, results, filters, t) == CacheSet(c, QueryCacheKey(query, filters), results, t)

\* EmbeddingCache.get(text) and EmbeddingCache.set(text, embedding)
EmbeddingCacheGet(c, text, ttl, t) == CacheGet(c, EmbeddingCacheKey(text), ttl, t)
EmbeddingCacheSet(c, text, embedding, t) == CacheSet(c, EmbeddingCacheKey(text), embedding, t)

----------------------------------------------------------------------------
(* HybridRetriever.retrieve *)

\* settings.default_top_k
default_top_k == 10

\* the outcome of a call: a returned value or a raised exception
Ok(v) == [raised |-> FALSE, value |-> v]
Raise == [raised |-> TRUE, value |-> <<>>]

\* top_k or settings.default_top_k
TopKOrDefault(top_k) == IF top_k = None \/ top_k = 0 THEN default_top_k ELSE top_k

\* the rows of the vector store formatted as vector_results
FormatVectorRows(rows) ==
    [r \in 1 .. Len(rows) |->
        [chunk_id |-> rows[r].id, vector_score |-> rows[r].similarity]]

\* the try block around bm25_retriever.retrieve(query, top_k * 2)
HybridBm25Branch(env, top_k, use_bm25) ==
    IF use_bm25 /\ ~env.bm25.raised THEN Take(env.bm25.value, top_k * 2) ELSE <<>>

HybridVectorBranch_nocatch(env, top_k, use_vector) ==
    IF ~use_vector THEN Ok(<<>>)
    ELSE IF ~env.embed_ok \/ env.vector.raised THEN Raise
    ELSE Ok(FormatVectorRows(Take(env.vector.value, top_k * 2)))

\* the try block around generate_embedding and vector_store.search; the
\* except clause leaves vector_results empty
HybridVectorBranch(env, top_k, use_vector) ==
    IF ~use_vector THEN Ok(<<>>)
    ELSE IF ~env.embed_ok \/ env.vector.raised THEN Ok(<<>>)
    ELSE Ok(FormatVectorRows(Take(env.vector.value, top_k * 2)))

\* HybridRetriever.retrieve(query, top_k, use_bm25, use_vector): env is what
\* the collaborators do for this query
HybridRetrieve(env, top_k_arg, use_bm25, use_vector) ==
    LET top_k == TopKOrDefault(top_k_arg)
        bm25 == HybridBm25Branch(env, top_k, use_bm25)
        vector == HybridVectorBranch(env, top_k, use_vector)
    IN  IF vector.raised THEN Raise
        ELSE Ok(FuseResults(bm25, vector.value, top_k))

\* corpus chunks have the ids the database gave them: real and pairwise
\* different
CorpusLists == {ids \in SeqsUpTo(RealIds, MaxLen) : DistinctIds(ids)}

\* rows of match_document_chunks in rank order
VectorRows(ids) ==
    [r \in 1 .. Len(ids) |-> [id |-> ids[r], similarity |-> One \div r]]

Bm25Outcomes == {Raise} \cup {Ok(Bm25Hits(ids)) : ids \in CorpusLists}
VectorOutcomes == {Raise} \cup {Ok(VectorRows(ids)) : ids \in CorpusLists}

HybridEnvs == [bm25 : Bm25Outcomes, embed_ok : BOOLEAN, vector : VectorOutcomes]

----------------------------------------------------------------------------
(* LLMServiceClient.generate_embedding, as far as its caller sees it *)

\* EmbeddingCache(ttl_seconds=86400 * 7), in hours (the unit of now in the
\* handler)
EmbeddingTTL == 168

\* generate_embedding(text): a cached embedding is returned without calling
\* the service; otherwise the service is called (service_ok is whether it
\* answers within the retries) and its embedding is cached.  An embedding
\* is modelled by the text it embeds.
GenerateEmbedding(emb_cache, text, service_ok, t) ==
    LET got == EmbeddingCacheGet(emb_cache, text, EmbeddingTTL, t)
    IN  IF got.value # Absent
        THEN [raised |-> FALSE, called |-> FALSE, cache |-> got.cache]
        ELSE IF service_ok
             THEN [raised |-> FALSE, called |-> TRUE,
                   cache |-> EmbeddingCacheSet(got.cache, text, text, t)]
             ELSE [raised |-> TRUE, called |-> TRUE, cache |-> got.cache]

\* settings.embedding_max_retries and settings.embedding_retry_delay (in
\* seconds)
embedding_max_retries == 3
embedding_retry_delay == 1

\* raise ValueError(...)
RaiseValueError == [raised |-> TRUE, value |-> <<>>, type |-> "ValueError"]

\* a generate_embedding that gives up after the first failed call
RECURSIVE GenerateEmbeddingRetry_once(_, _, _, _, _, _)
GenerateEmbeddingRetry_once(emb_cache, text, service, retry_count, calls, t) ==
    LET got == EmbeddingCacheGet(emb_cache, text, EmbeddingTTL, t)
        answer == service[calls + 1]
    IN  IF got.value # Absent
        THEN [outcome |-> Ok(got.value[1]), cache |-> got.cache, calls |-> calls,
              sleeps |-> <<>>]
        ELSE IF answer.ok
             THEN [outcome |-> Ok(answer.embedding),
                   cache |-> EmbeddingCacheSet(got.cache, text, answer.embedding, t),
                   calls |-> calls + 1, sleeps |-> <<>>]
             ELSE [outcome |-> RaiseValueError, cache |-> got.cache,
                   calls |-> calls + 1, sleeps |-> <<>>]

\* generate_embedding(text, user_id, retry_count) with its retries: service
\* is the sequence of answers of the embedding service to successive
\* POSTs, [ok |-> TRUE, embedding |-> e] or [ok |-> FALSE, error |-> kind];
\* calls is the number of POSTs made so far.  The result is the outcome,
\* the cache afterwards, the number of POSTs and the sleeps in order.
RECURSIVE GenerateEmbeddingRetry(_, _, _, _, _, _)
GenerateEmbeddingRetry(emb_cache, text, service, retry_count, calls, t) ==
    LET got == EmbeddingCacheGet(emb_cache, text, EmbeddingTTL, t)
        answer == service[calls + 1]
    IN  IF got.value # Absent
        THEN [outcome |-> Ok(got.value[1]), cache |-> got.cache, calls |-> calls,
              sleeps |-> <<>>]
        ELSE IF answer.ok
             THEN [outcome |-> Ok(answer.embedding),
                   cache |-> EmbeddingCacheSet(got.cache, text, answer.embedding, t),
                   calls |-> calls + 1, sleeps |-> <<>>]
             ELSE IF retry_count < embedding_max_retries
                  THEN LET r == GenerateEmbeddingRetry(got.cache, text, service,
                                                       retry_count + 1, calls + 1, t)
                       IN  [r EXCEPT !.sleeps = <<embedding_retry_delay * 2 ^ retry_count>>
                                                \o r.sleeps]
                  ELSE [outcome |-> RaiseValueError, cache |-> got.cache,
                        calls |-> calls + 1, sleeps |-> <<>>]

----------------------------------------------------------------------------
(* Retriever.retrieve (vector only) *)

\* settings.min_similarity_score
min_similarity_score == 0

\* result.get("similarity", 0.0) >= self.min_similarity_score; a comparison
\* with NaN is false
PassesMinSimilarity(row) ==
    LET sim == IF "similarity" \in DOMAIN row THEN row.similarity ELSE 0
    IN  sim # NaN /\ sim >= min_similarity_score

FormatRetrieverRow(row) ==
    [chunk_id |-> Get(row, "id"),
     similarity |-> IF "similarity" \in DOMAIN row THEN row.similarity ELSE 0,
     vector_score |-> IF "similarity" \in DOMAIN row THEN row.similarity ELSE 0]

\* Retriever.retrieve(query, top_k): env.embed_ok is whether
\* generate_embedding returns, env.vector what vector_store.search does;
\* both exceptions propagate
VectorOnlyRetrieve(env, top_k_arg) ==
    LET top_k == TopKOrDefault(top_k_arg)
    IN  IF ~env.embed_ok \/ env.vector.raised THEN Raise
        ELSE LET rows == Take(env.vector.value, top_k)
                 kept == SelectSeq(rows, PassesMinSimilarity)
             IN  Ok([i \in 1 .. Len(kept) |-> FormatRetrieverRow(kept[i])])

----------------------------------------------------------------------------
(* MultiQueryRetriever *)

\* llm_client.complete returns a JSON object whose "queries" is the string
\* of the characters chars
OkText(chars) == [raised |-> FALSE, value |-> Absent, text |-> chars]

\* the value _generate_query_variations returns is a str, not a list: the
\* LLM answered with a non-empty string for "queries"
GeneratedIsText(llm) == ~llm.raised /\ "text" \in DOMAIN llm /\ llm.text # <<>>

\* _generate_query_variations(query): llm is what llm_client.complete does:
\* Raise, or Ok of the parsed "queries" list, or OkText of a "queries" that
\* is a string, or Ok(Absent) for any other content (no JSON, no object, no
\* "queries", a falsy value, a number or an object for "queries").  A str
\* is returned as the sequence of its characters.
GenerateQueryVariations(query, llm) ==
    IF llm.raised THEN <<query>>
    ELSE IF GeneratedIsText(llm) THEN Take(llm.text, 5)
    ELSE IF llm.value = Absent \/ llm.value[1] = <<>> THEN <<query>>
    ELSE Take(llm.value[1], 5)

\* list.remove(x): the list without the first occurrence of x
RECURSIVE RemoveFirst(_, _)
RemoveFirst(list, x) ==
    IF list = <<>> THEN <<>>
    ELSE IF Head(list) = x THEN Tail(list)
    ELSE <<Head(list)>> \o RemoveFirst(Tail(list), x)

WithOriginalFirst_append(query, variations) ==
    IF query \in Range(variations) THEN variations ELSE Append(variations, query)

\* the original query is put at the front of query_variations
WithOriginalFirst(query, variations) ==
    IF query \notin Range(variations)
    THEN <<query>> \o variations
    ELSE <<query>> \o RemoveFirst(variations, query)

\* the key of the final sort:
\* x.get("rrf_score", 0) or x.get("vector_score", 0) or x.get("similarity", 0)
MergeSortKey(x) ==
    LET get0(k) == IF k \in DOMAIN x THEN x[k] ELSE 0
    IN  IF Truthy(get0("rrf_score")) THEN get0("rrf_score")
        ELSE IF Truthy(get0("vector_score")) THEN get0("vector_score")
        ELSE get0("similarity")

\* all_results.sort(key=..., reverse=True): stable, the keys are numbers
RECURSIVE InsertByKeyDesc(_, _)
InsertByKeyDesc(sorted, e) ==
    IF sorted = <<>> THEN <<e>>
    ELSE IF MergeSortKey(sorted[Len(sorted)]) >= MergeSortKey(e)
         THEN Append(sorted, e)
         ELSE Append(InsertByKeyDesc(SubSeq(sorted, 1, Len(sorted) - 1), e),
                     sorted[Len(sorted)])

RECURSIVE SortByKeyPrefix(_, _)
SortByKeyPrefix(s, n) ==
    IF n = 0 THEN <<>> ELSE InsertByKeyDesc(SortByKeyPrefix(s, n - 1), s[n])

SortByKeyDesc(s) == SortByKeyPrefix(s, Len(s))

\* a merge in which a later variation replaces the entry of a chunk_id
\* that was seen
RECURSIVE MergeVariation_lastwins(_, _, _, _)
MergeVariation_lastwins(all_results, results, i, q) ==
    IF i > Len(results) THEN all_results
    ELSE LET result == results[i]
             chunk_id == Get(result, "chunk_id")
             entry == [query_variation |-> q] @@ result
             seen == {all_results[j].chunk_id : j \in 1 .. Len(all_results)}
         IN  IF chunk_id = None \/ chunk_id = EmptyId
             THEN MergeVariation_lastwins(all_results, results, i + 1, q)
             ELSE IF chunk_id \in seen
                  THEN MergeVariation_lastwins(
                           [j \in 1 .. Len(all_results) |->
                               IF all_results[j].chunk_id = chunk_id
                               THEN entry ELSE all_results[j]],
                           results, i + 1, q)
                  ELSE MergeVariation_lastwins(Append(all_results, entry),
                                               results, i + 1, q)

\* the inner loop of retrieve: the results of one variation q are added to
\* all_results unless their chunk_id is falsy or was seen
RECURSIVE MergeVariation(_, _, _, _)
MergeVariation(all_results, results, i, q) ==
    IF i > Len(results) THEN all_results
    ELSE LET result == results[i]
             chunk_id == Get(result, "chunk_id")
             seen == {all_results[j].chunk_id : j \in 1 .. Len(all_results)}
         IN  IF chunk_id # None /\ chunk_id # EmptyId /\ chunk_id \notin seen
             THEN MergeVariation(
                      Append(all_results, [query_variation |-> q] @@ result),
                      results, i + 1, q)
             ELSE MergeVariation(all_results, results, i + 1, q)

----------------------------------------------------------------------------
(* filters.py: TemporalFilter *)

\* A datetime is an integer number of hours.  A date filter is Absent
\* (None), Some([kind |-> "str", s |-> preset or date text]) or
\* Some([kind |-> "dict", d |-> dict with start_date / end_date texts]).

\* settings.temporal_filter_presets, in hours
PresetHours(name) ==
    CASE name = "last_week" -> 7 * 24
      [] name = "this_month" -> 30 * 24
      [] name = "this_quarter" -> 90 * 24
      [] name = "this_year" -> 365 * 24
      [] OTHER -> None

\* dateparser.parse(text): the datetime a text denotes, None for a text that
\* denotes none.  The texts of the model: "recent" is 24 hours before time
\* 0, "old" is 400 days before it, "aware" is the text of "old" with a UTC
\* offset, anything else is no date.
DateParse(text) ==
    CASE text = "recent" -> -24
      [] text = "old" -> -9600
      [] text = "aware" -> -9600
      [] OTHER -> None

\* the datetime of the text carries a time zone: comparing it with the
\* offset-naive bounds of a date range raises TypeError
OffsetAware(text) == text = "aware"

\* datetime.min
DatetimeMin == NegInf

\* parse_filter(date_filter) at time t: Absent for None, else Some(range)
ParseFilter(date_filter, t) ==
    IF date_filter = Absent THEN Absent
    ELSE LET f == date_filter[1]
         IN  IF f.kind = "str"
             THEN IF f.s = "" THEN Absent
                  ELSE IF PresetHours(f.s) # None
                       THEN Some([start_date |-> t - PresetHours(f.s), end_date |-> t])
                       ELSE IF DateParse(f.s) # None
                            THEN Some([start_date |-> DateParse(f.s), end_date |-> t])
                            ELSE Absent
             ELSE IF DOMAIN f.d = {} THEN Absent
                  ELSE LET start_date == IF "start_date" \in DOMAIN f.d
                                         THEN DateParse(f.d.start_date) ELSE None
                           end_date == IF "end_date" \in DOMAIN f.d
                                       THEN DateParse(f.d.end_date) ELSE None
                       IN  IF start_date # None \/ end_date # None
                           THEN Some([start_date |-> IF start_date # None
                                                     THEN start_date ELSE DatetimeMin,
                                      end_date |-> IF end_date # None
                                                   THEN end_date ELSE t])
                           ELSE Absent

\* metadata.get("published_date") or metadata.get("date"): "" when neither
\* key holds a non-empty text
DateStrOf(metadata) ==
    IF "published_date" \in DOMAIN metadata /\ metadata.published_date # ""
    THEN metadata.published_date
    ELSE IF "date" \in DOMAIN metadata THEN metadata.date ELSE ""

\* the body of the loop of TemporalFilter.filter_results: is the result
\* appended to filtered
KeptByDate(metadata, date_range) ==
    LET date_str == DateStrOf(metadata)
        result_date == DateParse(date_str)
    IN  IF date_str # ""
        THEN IF result_date # None
             THEN IF OffsetAware(date_str)
                     /\ (date_range.start_date # None \/ date_range.end_date # None)
                  THEN TRUE
                  ELSE ~(date_range.start_date # None
                          /\ result_date < date_range.start_date)
                       /\ ~(date_range.end_date # None
                            /\ result_date > date_range.end_date)
             ELSE FALSE
        ELSE TRUE

----------------------------------------------------------------------------
(* filters.py: EntityFilter *)

\* A name is a sequence of characters; a character is a number, a lower-case
\* letter below 100 and its upper-case letter 100 above it.
LowerChar(ch) == IF ch > 100 THEN ch - 100 ELSE ch

\* str.lower()
Lower(name) == [i \in 1 .. Len(name) |-> LowerChar(name[i])]

\* needle in hay, for strings
Contains(hay, needle) ==
    \E i \in 0 .. Len(hay) :
        /\ i + Len(needle) <= Len(hay)
        /\ SubSeq(hay, i + 1, i + Len(needle)) = needle

\* An entity of a metadata list is [kind |-> "str", name |-> n] or
\* [kind |-> "dict", d |-> dict]; key is "name" or "sector".
EntityName(entity, key) ==
    IF entity.kind = "str" THEN entity.name
    ELSE IF key \in DOMAIN entity.d THEN entity.d[key] ELSE <<>>

\* A metadata field of entities is absent, or [kind |-> "list", items |-> seq]
\* or [kind |-> "other"] for a value that is no list.
\* One dimension of the loop body of EntityFilter.filter_results: FALSE
\* when the result is skipped (continue) on this dimension.
PassesDimension(metadata, field, key, filter) ==
    IF filter = Absent \/ filter[1] = <<>> THEN TRUE
    ELSE LET value == IF field \in DOMAIN metadata THEN metadata[field]
                      ELSE [kind |-> "list", items |-> <<>>]
         IN  IF value.kind # "list" THEN TRUE
             ELSE \E f \in 1 .. Len(filter[1]), n \in 1 .. Len(value.items) :
                    Contains(Lower(EntityName(value.items[n], key)), Lower(filter[1][f]))

KeptByEntities(metadata, company_filter, investor_filter, sector_filter) ==
    /\ PassesDimension(metadata, "companies", "name", company_filter)
    /\ PassesDimension(metadata, "investors", "name", investor_filter)
    /\ PassesDimension(metadata, "sectors", "sector", sector_filter)

----------------------------------------------------------------------------
(* reranker.py: Reranker *)

\* The reranker object is [model_loaded, model_load_failed]; self.model is
\* set exactly when model_loaded.  renv is what the model does:
\* [load_ok |-> whether CrossEncoder(...) returns,
\*  predict |-> Raise or Ok(scores), one score per pair].

\* a _load_model that tries again after a failed load
LoadModel_retry(rr, renv) ==
    IF rr.model_loaded THEN rr
    ELSE IF renv.load_ok
         THEN [model_loaded |-> TRUE, model_load_failed |-> FALSE]
         ELSE [rr EXCEPT !.model_load_failed = TRUE]

\* _load_model()
LoadModel(rr, renv) ==
    IF rr.model_loaded \/ rr.model_load_failed THEN rr
    ELSE IF renv.load_ok
         THEN [rr EXCEPT !.model_loaded = TRUE]
         ELSE [rr EXCEPT !.model_load_failed = TRUE]

\* a sort of the (doc, score) pairs in ascending score order
RECURSIVE InsertByScoreDesc_asc(_, _)
InsertByScoreDesc_asc(sorted, e) ==
    IF sorted = <<>> THEN <<e>>
    ELSE IF sorted[Len(sorted)][2] <= e[2]
         THEN Append(sorted, e)
         ELSE Append(InsertByScoreDesc_asc(SubSeq(sorted, 1, Len(sorted) - 1), e),
                     sorted[Len(sorted)])

\* scored_docs.sort(key=lambda x: x[1], reverse=True) on (doc, score) pairs
RECURSIVE InsertByScoreDesc(_, _)
InsertByScoreDesc(sorted, e) ==
    IF sorted = <<>> THEN <<e>>
    ELSE IF sorted[Len(sorted)][2] >= e[2]
         THEN Append(sorted, e)
         ELSE Append(InsertByScoreDesc(SubSeq(sorted, 1, Len(sorted) - 1), e),
                     sorted[Len(sorted)])

RECURSIVE SortByScorePrefix(_, _)
SortByScorePrefix(s, n) ==
    IF n = 0 THEN <<>> ELSE InsertByScoreDesc(SortByScorePrefix(s, n - 1), s[n])

\* a rerank that returns nothing when it cannot score
Rerank_nofallback(rr, documents, top_k_arg, renv) ==
    [results |-> <<>>, rr |-> LoadModel(rr, renv), scored |-> FALSE]

\* rerank(query, documents, top_k): the returned list, the reranker object
\* afterwards, and whether the model scored the documents
Rerank(rr, documents, top_k_arg, renv) ==
    IF documents = <<>> THEN [results |-> <<>>, rr |-> rr, scored |-> FALSE]
    ELSE LET rr1 == LoadModel(rr, renv)
             top_k == IF top_k_arg = None \/ top_k_arg = 0
                      THEN Len(documents) ELSE top_k_arg
         IN  IF ~rr1.model_loaded \/ rr1.model_load_failed
             THEN [results |-> documents, rr |-> rr1, scored |-> FALSE]
             ELSE IF renv.predict.raised
                  THEN [results |-> Take(documents, top_k), rr |-> rr1, scored |-> FALSE]
                  ELSE LET scored_docs == [i \in 1 .. Len(documents) |->
                                              <<documents[i], renv.predict.value[i]>>]
                           ranked == Take(SortByScorePrefix(scored_docs, Len(scored_docs)),
                                          top_k)
                       IN  [results |-> [i \in 1 .. Len(ranked) |->
                                            [rerank_score |-> ranked[i][2]] @@ ranked[i][1]],
                            rr |-> rr1, scored |-> TRUE]

----------------------------------------------------------------------------
(* bm25_retriever.py: BM25RetrieverWrapper *)

\* settings.bm25_top_k
bm25_top_k == 10

\* A chunk row is [id, content]; content None is a row without text, any
\* other content stands for the text by the score it has for the query
\* "q1".  The object is [bm25, chunks, index_built], bm25 being Absent or
\* Some(the rows the index was built from).

\* bm25.get_scores(query_tokens), one score per row of the index: the rows
\* score by their text for "q1", no row has a term of any other query
Bm25Score(query, chunk) == IF query = "q1" THEN chunk.content ELSE 0

\* chunk["content"].lower().split() works for every row
Tokenizable(chunks) == \A i \in 1 .. Len(chunks) : chunks[i].content # None

\* build_index(): the object afterwards and whether the call raised;
\* load_ok is whether the query of the table returns
BuildIndex(obj, source, load_ok) ==
    IF ~load_ok
    THEN [obj |-> [obj EXCEPT !.index_built = FALSE], raised |-> TRUE]
    ELSE IF source = <<>>
         THEN [obj |-> [obj EXCEPT !.index_built = FALSE], raised |-> FALSE]
         ELSE IF ~Tokenizable(source)
              THEN [obj |-> [obj EXCEPT !.chunks = source, !.index_built = FALSE],
                    raised |-> TRUE]
              ELSE [obj |-> [bm25 |-> Some(source), chunks |-> source,
                             index_built |-> TRUE],
                    raised |-> FALSE]

\* refresh_index()
RefreshIndex(obj) == [obj EXCEPT !.index_built = FALSE]

\* a sort of the (chunk, score) pairs by descending score that puts equal
\* scores in reverse order
Bm25Sorted_tiesreversed(scored_chunks) ==
    LET n == Len(scored_chunks)
        reversed == [i \in 1 .. n |-> scored_chunks[n + 1 - i]]
    IN  SortByScorePrefix(reversed, n)

\* scored_chunks.sort(key=lambda x: x[1], reverse=True)
Bm25Sorted(scored_chunks) == SortByScorePrefix(scored_chunks, Len(scored_chunks))

\* retrieve(query, top_k): the object afterwards and the outcome;
\* scores_ok is whether get_scores returns
Bm25Retrieve(obj, source, load_ok, scores_ok, query, top_k_arg) ==
    LET b == IF ~obj.index_built \/ obj.bm25 = Absent
             THEN BuildIndex(obj, source, load_ok)
             ELSE [obj |-> obj, raised |-> FALSE]
        o == b.obj
    IN  IF b.raised THEN [obj |-> o, outcome |-> Raise]
        ELSE IF o.bm25 = Absent \/ o.chunks = <<>>
             THEN [obj |-> o, outcome |-> Ok(<<>>)]
             ELSE IF ~scores_ok THEN [obj |-> o, outcome |-> Ok(<<>>)]
                  ELSE LET top_k == IF top_k_arg = None \/ top_k_arg = 0
                                    THEN bm25_top_k ELSE top_k_arg
                           index == o.bm25[1]
                           scored_chunks ==
                               [i \in 1 .. Min(Len(o.chunks), Len(index)) |->
                                   <<o.chunks[i], Bm25Score(query, index[i])>>]
                           top == Take(Bm25Sorted(scored_chunks), top_k)
                       IN  [obj |-> o,
                            outcome |-> Ok([i \in 1 .. Len(top) |->
                                              [content |-> top[i][1].content,
                                               bm25_score |-> top[i][2],
                                               chunk_id |-> top[i][1].id]])]

----------------------------------------------------------------------------
(* The corpus behind the handler *)

\* the query texts of the model: the query of the requests and one variation
Queries == {"q1", "q2"}

\* the chunks the lexical index returns for a query text, best first: every
\* chunk for "q1", the last chunk for "q2"
LexRanking(q) ==
    IF q = "q1" THEN [i \in 1 .. NChunks |-> i + 1] ELSE <<NChunks + 1>>

\* the chunks match_document_chunks returns for the embedding of a query
\* text, best first: every chunk but the first, in descending order, for
\* "q1", the last chunk for "q2"
VecRanking(q) ==
    IF q = "q1" THEN [i \in 1 .. NChunks - 1 |-> NChunks + 2 - i] ELSE <<NChunks + 1>>

\* the metadata stored with a chunk ("Acme" and "Bolt" as character codes);
\* every retriever copies it into its results unchanged, so a result's
\* metadata is looked up by its chunk_id
MetadataOf(chunk_id) ==
    IF chunk_id = 2
    THEN [published_date |-> "old",
          companies |-> [kind |-> "list",
                         items |-> <<[kind |-> "str", name |-> <<101, 3, 13, 5>>]>>]]
    ELSE IF chunk_id = 3
         THEN [published_date |-> "recent",
               companies |-> [kind |-> "list",
                              items |-> <<[kind |-> "dict",
                                           d |-> [name |-> <<102, 15, 12, 20>>]]>>]]
         ELSE <<>>

\* result.get("metadata", {}): the metadata a result carries, that of its
\* chunk in the corpus for the results of the retrievers
Metadata(result) ==
    IF "metadata" \in DOMAIN result THEN result.metadata
    ELSE MetadataOf(Get(result, "chunk_id"))

\* what the lexical retriever, the embedding call and the vector store do
\* for the query text q when flags says which of them work
HybridEnvOf(q, flags) ==
    [bm25 |-> IF flags.bm25_ok THEN Ok(Bm25Hits(LexRanking(q))) ELSE Raise,
     embed_ok |-> flags.embed_ok,
     vector |-> IF flags.vector_ok THEN Ok(VectorRows(VecRanking(q))) ELSE Raise]

----------------------------------------------------------------------------
(* MultiQueryRetriever.retrieve *)

\* the hybrid retriever raises for the query text (an error outside the
\* two try blocks of HybridRetriever.retrieve)
HybridRaises(flags) == "hybrid_raises" \in DOMAIN flags /\ flags.hybrid_raises

\* await self.hybrid_retriever.retrieve(query=q, top_k=top_k * 2, ...)
HybridOutcome(q, flags, top_k) ==
    IF HybridRaises(flags) THEN Raise
    ELSE HybridRetrieve(HybridEnvOf(q, flags), top_k, TRUE, TRUE)

\* the loop over query_variations: a HybridRetriever.retrieve that raises is
\* skipped (continue)
RECURSIVE MultiQueryLoop(_, _, _, _, _)
MultiQueryLoop(e, qs, i, top_k, all_results) ==
    IF i > Len(qs) THEN all_results
    ELSE LET r == HybridOutcome(qs[i], e.flags[qs[i]], top_k * 2)
         IN  MultiQueryLoop(e, qs, i + 1, top_k,
                            IF r.raised THEN all_results
                            ELSE MergeVariation(all_results, r.value, 1, qs[i]))

\* the query strings retrieve runs, in order: the variations given or
\* generated, with the original query put first
QueryStrings(llm, query, query_variations) ==
    WithOriginalFirst(query, IF query_variations = Absent
                             THEN GenerateQueryVariations(query, llm)
                             ELSE query_variations[1])

\* retrieve(query, top_k, query_variations): e.llm is what llm_client.complete
\* does, e.flags[q] which sources work for the query text q
MultiQueryRetrieve(e, query, top_k_arg, query_variations) ==
    LET top_k == TopKOrDefault(top_k_arg)
        qs == QueryStrings(e.llm, query, query_variations)
    IN  IF query_variations = Absent /\ GeneratedIsText(e.llm)
        THEN Raise
        ELSE Ok(Take(SortByKeyDesc(MultiQueryLoop(e, qs, 1, top_k, <<>>)), top_k))

----------------------------------------------------------------------------
(* filters.py: filter_results of both filters *)

\* TemporalFilter.filter_results(results, date_range) for a date_range that
\* is a non-empty dict
TemporalFilterResults(results, date_range) ==
    SelectSeq(results, LAMBDA r : KeptByDate(Metadata(r), date_range))

\* truth value of an Optional[List[str]]
ListTruthy(f) == f # Absent /\ f[1] # <<>>

\* EntityFilter.filter_results(results, company_filter, investor_filter,
\* sector_filter)
EntityFilterResults(results, company_filter, investor_filter, sector_filter) ==
    IF ~(ListTruthy(company_filter) \/ ListTruthy(investor_filter)
         \/ ListTruthy(sector_filter))
    THEN results
    ELSE SelectSeq(results,
                   LAMBDA r : KeptByEntities(Metadata(r), company_filter,
                                             investor_filter, sector_filter))

----------------------------------------------------------------------------
(* routers/query.py: the query handler *)

\* QueryCache(ttl_seconds=3600): one hour, the unit of now
QueryTTL == 1

\* A request is a record of the attributes the request object has.
\* QueryRequest declares query, top_k, filter_document_ids,
\* use_hybrid_search, use_reranking, rerank_top_n and the four filters, and
\* neither use_multi_query nor query_variations: reading an attribute the
\* object lacks raises AttributeError.

\* truth value of request.date_filter
DateFilterTruthy(f) ==
    f # Absent /\ (IF f[1].kind = "str" THEN f[1].s # "" ELSE DOMAIN f[1].d # {})

\* cache_filters if cache_filters else None
RequestCacheFilters(req) ==
    LET item(k, present, f) == IF present THEN [x \in {k} |-> f[1]] ELSE <<>>
        cache_filters ==
            item("date_filter", DateFilterTruthy(req.date_filter), req.date_filter)
            @@ item("company_filter", ListTruthy(req.company_filter), req.company_filter)
            @@ item("investor_filter", ListTruthy(req.investor_filter), req.investor_filter)
            @@ item("sector_filter", ListTruthy(req.sector_filter), req.sector_filter)
    IN  IF DOMAIN cache_filters = {} THEN Absent ELSE Some(cache_filters)

\* raise HTTPException(status_code=...)
HTTPError(status_code) == [status |-> status_code]

\* the retrieval of the selected search mode: the outcome, the search_mode
\* and the retriever invoked
RetrieveByMode(req, e) ==
    IF req.use_multi_query
    THEN IF "query_variations" \notin DOMAIN req
         THEN [outcome |-> Raise, search_mode |-> "multi_query", invoked |-> {}]
         ELSE [outcome |-> MultiQueryRetrieve(e, req.query, req.top_k * 2,
                                              req.query_variations),
               search_mode |-> "multi_query",
               invoked |-> {"multi_query_retriever"}]
    ELSE IF req.use_hybrid_search
         THEN [outcome |-> HybridRetrieve(HybridEnvOf(req.query, e.flags[req.query]),
                                          req.top_k * 2, TRUE, TRUE),
               search_mode |-> "hybrid",
               invoked |-> {"hybrid_retriever"}]
         ELSE [outcome |-> VectorOnlyRetrieve(HybridEnvOf(req.query, e.flags[req.query]),
                                              req.top_k * 2),
               search_mode |-> "vector",
               invoked |-> {"vector_only_retriever"}]

\* results[n:]
Drop(s, n) == IF n >= Len(s) THEN <<>> ELSE SubSeq(s, n + 1, Len(s))

\* the body of "if request.use_reranking and results": the new results and
\* the reranker object afterwards
RerankStep(rr, req, results, renv) ==
    LET results_to_rerank == Take(results, req.rerank_top_n)
        r == Rerank(rr, results_to_rerank, req.top_k, renv)
        reranked_ids == {Get(r.results[i], "chunk_id") : i \in 1 .. Len(r.results)}
        remaining == SelectSeq(Drop(results, req.rerank_top_n),
                               LAMBDA x : Get(x, "chunk_id") \notin reranked_ids)
    IN  [results |-> r.results \o remaining, rr |-> r.rr]

\* the handler from the temporal filter to the return of the response, for
\* the results ret of the retrieval; qc is the cache after the lookup
FilterRerankFormat(req, e, qc, rr, t, cache_filters, ret) ==
    LET dated == IF DateFilterTruthy(req.date_filter)
                 THEN LET date_range == ParseFilter(req.date_filter, t)
                      IN  IF date_range # Absent
                          THEN TemporalFilterResults(ret.outcome.value, date_range[1])
                          ELSE ret.outcome.value
                 ELSE ret.outcome.value
        filtered == EntityFilterResults(dated, req.company_filter,
                                        req.investor_filter, req.sector_filter)
        reranking_enabled == req.use_reranking /\ filtered # <<>>
        reranked == IF reranking_enabled
                    THEN RerankStep(rr, req, filtered, e.renv)
                    ELSE [results |-> filtered, rr |-> rr]
        query_results == FormatResults(Take(reranked.results, req.top_k))
        value == [results |-> query_results,
                  count |-> Len(query_results),
                  search_mode |-> ret.search_mode,
                  reranking_enabled |-> reranking_enabled]
    IN  [response |-> [status |-> 200, body |-> [query |-> req.query] @@ value],
         query_cache |-> QueryCacheSet(qc, req.query, value, cache_filters, t),
         reranker |-> reranked.rr,
         invoked |-> ret.invoked \cup {"entity_filter"}
                     \cup (IF DateFilterTruthy(req.date_filter)
                           THEN {"temporal_filter"} ELSE {})
                     \cup (IF reranking_enabled THEN {"reranker"} ELSE {})]

\* query(request, x_user_id) at time t, with the query cache qc and the
\* reranker rr: the response, the components invoked and both objects
\* afterwards
Query(req, user, e, qc, rr, t) ==
    IF user = ""
    THEN [response |-> HTTPError(401), query_cache |-> qc, reranker |-> rr,
          invoked |-> {}]
    ELSE LET cache_filters == RequestCacheFilters(req)
             cached_results == QueryCacheGet(qc, req.query, cache_filters, QueryTTL, t)
         IN  IF cached_results.value # Absent
             THEN [response |-> [status |-> 200,
                                 body |-> [query |-> req.query] @@ cached_results.value[1]],
                   query_cache |-> cached_results.cache, reranker |-> rr,
                   invoked |-> {}]
             ELSE IF "use_multi_query" \notin DOMAIN req
                  THEN [response |-> HTTPError(500),
                        query_cache |-> cached_results.cache, reranker |-> rr,
                        invoked |-> {}]
                  ELSE LET ret == RetrieveByMode(req, e)
                       IN  IF ret.outcome.raised
                           THEN [response |-> HTTPError(500),
                                 query_cache |-> cached_results.cache,
                                 reranker |-> rr, invoked |-> ret.invoked]
                           ELSE FilterRerankFormat(req, e, cached_results.cache, rr, t,
                                                   cache_filters, ret)

----------------------------------------------------------------------------
(* SpecHybrid: one call of HybridRetriever.retrieve *)

HybridInit ==
    /\ FuseIdle /\ NormIdle /\ CacheIdle /\ ApiIdle
    /\ RkIdle /\ FlIdle /\ MqIdle /\ BmIdle /\ EmIdle /\ FsIdle
    /\ hy_env \in HybridEnvs
    /\ hy_top_k \in {None} \cup (1 .. MaxTopK)
    /\ hy_ret = <<>>
    /\ hy_pc = "call"

HybridCall ==
    /\ hy_pc = "call"
    /\ hy_ret' = HybridRetrieve(hy_env, hy_top_k, TRUE, TRUE)
    /\ hy_pc' = "done"
    /\ UNCHANGED <<hy_env, hy_top_k, fuse_vars, norm_vars, cache_vars, api_vars,
                   rk_vars, fl_vars, mq_vars, bm_vars, em_vars, fs_vars>>

HybridNext == HybridCall

SpecHybrid == HybridInit /\ [][HybridNext]_vars

----------------------------------------------------------------------------
(* SpecNorm: the formatting of one result as a pure function *)

\* the score values of a result: absent, the three special floats, a
\* negative, zero, a value within (0,1), 1.0 and a value above 1
ScoreVals == {None, NaN, PosInf, NegInf, -One, 0, One \div 2, One, 2 * One}

NormInit ==
    /\ FuseIdle /\ HyIdle /\ CacheIdle /\ ApiIdle
    /\ RkIdle /\ FlIdle /\ MqIdle /\ BmIdle /\ EmIdle /\ FsIdle
    /\ raw_result \in [chunk_id : {NoneStr + 1}, rerank_score : ScoreVals,
                        rrf_score : ScoreVals, vector_score : ScoreVals,
                        similarity : ScoreVals, bm25_score : {None}]
    /\ query_result = <<>>
    /\ norm_pc = "call"

NormCall ==
    /\ norm_pc = "call"
    /\ query_result' = FormatResult(raw_result)
    /\ norm_pc' = "done"
    /\ UNCHANGED <<raw_result, fuse_vars, hy_vars, cache_vars, api_vars,
                   rk_vars, fl_vars, mq_vars, bm_vars, em_vars, fs_vars>>

NormNext == NormCall

SpecNorm == NormInit /\ [][NormNext]_vars

----------------------------------------------------------------------------
(* SpecCache: a QueryCache or an EmbeddingCache under get, set, clear and
   the passing of time *)

\* latest time of the model
MaxTime == 3
\* largest ttl_seconds a cache is constructed with in the model
MaxTTL == 1

CacheQueries == {"q1", "q2"}
CacheFilters == {Absent, Some(<<>>), Some([company_filter |-> <<"acme">>])}
CacheValues == {"v1", "v2"}

\* the (query, filters) or (text) arguments of the operations
CacheArgs(kind) ==
    IF kind = "QueryCache"
    THEN {[query |-> q, filters |-> f] : q \in {"q1"}, f \in CacheFilters}
         \cup {[query |-> "q2", filters |-> Absent]}
    ELSE {[text |-> q] : q \in CacheQueries}

KeyOfArgs(kind, a) ==
    IF kind = "QueryCache" THEN QueryCacheKey(a.query, a.filters)
    ELSE EmbeddingCacheKey(a.text)

CacheInit ==
    /\ FuseIdle /\ HyIdle /\ NormIdle /\ ApiIdle
    /\ RkIdle /\ FlIdle /\ MqIdle /\ BmIdle /\ EmIdle /\ FsIdle
    /\ cache = <<>>
    /\ ttl_seconds \in 0 .. MaxTTL
    /\ now = 0
    /\ cache_op \in {[op |-> "init", kind |-> k] : k \in {"QueryCache", "EmbeddingCache"}}
    /\ cache_ret = Absent
    /\ cache_pre = <<>>

\* time passes
CacheTick ==
    /\ now < MaxTime
    /\ now' = now + 1
    /\ cache_op' = [op |-> "tick", kind |-> cache_op.kind]
    /\ cache_pre' = cache
    /\ UNCHANGED <<cache, ttl_seconds, cache_ret, fuse_vars, hy_vars, norm_vars, api_vars,
                   rk_vars, fl_vars, mq_vars, bm_vars, em_vars, fs_vars>>

CacheDoGet ==
    \E a \in CacheArgs(cache_op.kind) :
        LET r == IF cache_op.kind = "QueryCache"
                 THEN QueryCacheGet(cache, a.query, a.filters, ttl_seconds, now)
                 ELSE EmbeddingCacheGet(cache, a.text, ttl_seconds, now)
        IN  /\ cache' = r.cache
            /\ cache_ret' = r.value
            /\ cache_op' = [op |-> "get", kind |-> cache_op.kind, args |-> a]
            /\ cache_pre' = cache
            /\ UNCHANGED <<ttl_seconds, now, fuse_vars, hy_vars, norm_vars, api_vars,
                   rk_vars, fl_vars, mq_vars, bm_vars, em_vars, fs_vars>>

CacheDoSet ==
    \E a \in CacheArgs(cache_op.kind), v \in CacheValues :
        /\ cache' = IF cache_op.kind = "QueryCache"
                    THEN QueryCacheSet(cache, a.query, v, a.filters, now)
                    ELSE EmbeddingCacheSet(cache, a.text, v, now)
        /\ cache_op' = [op |-> "set", kind |-> cache_op.kind, args |-> a, value |-> v]
        /\ cache_pre' = cache
        /\ UNCHANGED <<ttl_seconds, now, cache_ret, fuse_vars, hy_vars, norm_vars, api_vars,
                   rk_vars, fl_vars, mq_vars, bm_vars, em_vars, fs_vars>>

CacheDoClear ==
    /\ cache' = CacheClear(cache)
    /\ cache_op' = [op |-> "clear", kind |-> cache_op.kind]
    /\ cache_pre' = cache
    /\ UNCHANGED <<ttl_seconds, now, cache_ret, fuse_vars, hy_vars, norm_vars, api_vars,
                   rk_vars, fl_vars, mq_vars, bm_vars, em_vars, fs_vars>>

CacheNext == CacheTick \/ CacheDoGet \/ CacheDoSet \/ CacheDoClear

SpecCache == CacheInit /\ [][CacheNext]_vars

----------------------------------------------------------------------------
(* SpecFuse: _fuse_results as a pure function of its arguments *)

FuseInit ==
    /\ HyIdle /\ NormIdle /\ CacheIdle /\ ApiIdle
    /\ RkIdle /\ FlIdle /\ MqIdle /\ BmIdle /\ EmIdle /\ FsIdle
    /\ bm25_results \in {Bm25Hits(ids) : ids \in IdLists}
    /\ vector_results \in {VectorHits(ids) : ids \in IdLists}
    /\ fuse_top_k \in 1 .. MaxTopK
    /\ sorted_results = <<>>
    /\ fused = <<>>
    /\ fuse_pc = "call"
    /\ fuse_result_map = <<>>
    /\ fuse_rank = 0

FuseCall ==
    /\ fuse_pc = "call"
    /\ sorted_results' = FuseSorted(bm25_results, vector_results)
    /\ fused' = FuseResults(bm25_results, vector_results, fuse_top_k)
    /\ fuse_pc' = "done"
    /\ UNCHANGED <<bm25_results, vector_results, fuse_top_k, fuse_result_map, fuse_rank,
                   hy_vars, norm_vars, cache_vars, api_vars,
                   rk_vars, fl_vars, mq_vars, bm_vars, em_vars, fs_vars>>

FuseNext == FuseCall

SpecFuse == FuseInit /\ [][FuseNext]_vars

----------------------------------------------------------------------------
(* The requests and collaborators of the handler specifications *)

\* largest top_k of a request in the model
MaxRequestTopK == 2
\* number of handler calls in a behaviour of Spec
MaxRequests == 2

\* which of the lexical retriever, the embedding call and the vector store
\* work
AllUp == [bm25_ok |-> TRUE, embed_ok |-> TRUE, vector_ok |-> TRUE]
Bm25Down == [bm25_ok |-> FALSE, embed_ok |-> TRUE, vector_ok |-> TRUE]
EmbeddingDown == [bm25_ok |-> TRUE, embed_ok |-> FALSE, vector_ok |-> TRUE]
VectorStoreDown == [bm25_ok |-> TRUE, embed_ok |-> TRUE, vector_ok |-> FALSE]
AllDown == [bm25_ok |-> FALSE, embed_ok |-> FALSE, vector_ok |-> FALSE]

\* the sources of a query text all failed
SourcesFailed(flags) == ~flags.bm25_ok /\ (~flags.embed_ok \/ ~flags.vector_ok)

\* the cross-encoder scores of the candidates by position
RerankScores(first) == [i \in 1 .. NChunks |-> IF i = 1 THEN first ELSE One \div 2]

\* the date, company, investor and sector filters of a request
NoFilters ==
    [date |-> Absent, company |-> Absent]
DateOnly ==
    [date |-> Some([kind |-> "str", s |-> "last_week"]), company |-> Absent]
CompanyOnly ==
    [date |-> Absent, company |-> Some(<< <<1, 3>> >>)]
\* date filters parse_filter cannot resolve: a text that is neither a preset
\* nor a date, and a dict whose only bound is such a text
DateUnresolvedText ==
    [date |-> Some([kind |-> "str", s |-> "someday"]), company |-> Absent]
DateUnresolvedDict ==
    [date |-> Some([kind |-> "dict", d |-> [start_date |-> "someday"]]),
     company |-> Absent]

\* the requests QueryRequest builds: without use_multi_query and
\* query_variations
SchemaRequests(TopKs, Hybrids, Rerankings, Filters) ==
    {[query |-> "q1", top_k |-> k, use_hybrid_search |-> h,
      use_reranking |-> rr.on, rerank_top_n |-> rr.n,
      date_filter |-> f.date, company_filter |-> f.company,
      investor_filter |-> Absent, sector_filter |-> Absent] :
        k \in TopKs, h \in Hybrids, rr \in Rerankings, f \in Filters}

\* request objects that expose the multi-query options as well
OptionsRequests(TopKs, Hybrids, Rerankings, Filters, Variations) ==
    {r @@ [use_multi_query |-> FALSE, query_variations |-> Absent] :
        r \in SchemaRequests(TopKs, Hybrids, Rerankings, Filters)}
    \cup {r @@ [use_multi_query |-> TRUE, query_variations |-> v] :
            r \in SchemaRequests(TopKs, {TRUE}, Rerankings, Filters),
            v \in Variations}

\* collaborators that all work; also the collaborators of a call that
\* consults none of them
QuietEnv ==
    [flags |-> [q \in Queries |-> AllUp], llm |-> Raise,
     renv |-> [load_ok |-> TRUE, predict |-> Ok(RerankScores(0))]]

\* a call consults its collaborators only when it has a user id and its
\* request has the attribute use_multi_query
EnvsFor(req, user, Envs) ==
    IF user = "" \/ "use_multi_query" \notin DOMAIN req THEN {QuietEnv} ELSE Envs

\* one call of the handler
Handle(req, user, e) ==
    LET r == Query(req, user, e, query_cache, reranker, now)
    IN  /\ request' = req
        /\ request_time' = now
        /\ x_user_id' = user
        /\ collaborators' = e
        /\ response' = r.response
        /\ invoked' = r.invoked
        /\ query_cache' = r.query_cache
        /\ query_cache_pre' = query_cache
        /\ reranker' = r.reranker
        /\ requests_done' = requests_done + 1
        /\ UNCHANGED <<fuse_vars, hy_vars, norm_vars, cache_vars,
                       rk_vars, fl_vars, mq_vars, bm_vars, em_vars, fs_vars>>

ApiInit ==
    /\ FuseIdle /\ HyIdle /\ NormIdle /\ CacheIdle
    /\ RkIdle /\ FlIdle /\ MqIdle /\ BmIdle /\ EmIdle /\ FsIdle
    /\ request = <<>>
    /\ request_time = 0
    /\ x_user_id = ""
    /\ collaborators = <<>>
    /\ response = <<>>
    /\ invoked = {}
    /\ query_cache = <<>>
    /\ query_cache_pre = <<>>
    /\ reranker = [model_loaded |-> FALSE, model_load_failed |-> FALSE]
    /\ requests_done = 0

----------------------------------------------------------------------------
(* SpecQuery: one call of the handler on a freshly started service *)

QueryRequests ==
    LET TopKs == 1 .. MaxRequestTopK
        Rerankings == {[on |-> FALSE, n |-> 1], [on |-> TRUE, n |-> 1],
                       [on |-> TRUE, n |-> MaxRequestTopK]}
        Filters == {NoFilters, DateOnly, CompanyOnly, DateUnresolvedText,
                    DateUnresolvedDict}
    IN  SchemaRequests(TopKs, BOOLEAN, Rerankings, Filters)
        \cup OptionsRequests(TopKs, BOOLEAN, Rerankings, Filters,
                            {Absent, Some(<<"q2">>)})

QueryEnvs ==
    [flags : {[q \in Queries |-> IF q = "q1" THEN f ELSE g] :
                 f \in {AllUp, Bm25Down, EmbeddingDown, VectorStoreDown, AllDown},
                 g \in {AllUp, AllDown}},
     llm : {Raise, Ok(Absent), Ok(Some(<<"q2">>))},
     renv : {[load_ok |-> FALSE, predict |-> Raise],
             [load_ok |-> TRUE, predict |-> Raise],
             [load_ok |-> TRUE, predict |-> Ok(RerankScores(0))],
             [load_ok |-> TRUE, predict |-> Ok(RerankScores(One))]}]

QueryCall ==
    /\ requests_done = 0
    /\ \E req \in QueryRequests, user \in {"", "u1"} :
         \E e \in EnvsFor(req, user, QueryEnvs) : Handle(req, user, e)

QueryNext == QueryCall

SpecQuery == ApiInit /\ [][QueryNext]_vars

----------------------------------------------------------------------------
(* Spec: the service under a sequence of requests and the passing of time *)

Requests ==
    LET TopKs == {1, MaxRequestTopK}
        Rerankings == {[on |-> TRUE, n |-> MaxRequestTopK]}
        Filters == {NoFilters, CompanyOnly}
    IN  SchemaRequests(TopKs, {TRUE}, Rerankings, Filters)
        \cup OptionsRequests(TopKs, BOOLEAN, Rerankings, Filters, {})

Envs ==
    [flags : {[q \in Queries |-> f] : f \in {AllUp, EmbeddingDown, AllDown}},
     llm : {Raise},
     renv : {[load_ok |-> TRUE, predict |-> Ok(RerankScores(0))]}]

HandleQuery ==
    /\ requests_done < MaxRequests
    /\ \E req \in Requests, user \in {"u1"} :
         \E e \in EnvsFor(req, user, Envs) : Handle(req, user, e)

\* time passes: one hour
Tick ==
    /\ now < MaxTime
    /\ now' = now + 1
    /\ UNCHANGED <<cache, ttl_seconds, cache_op, cache_ret, cache_pre,
                   fuse_vars, hy_vars, norm_vars, api_vars,
                   rk_vars, fl_vars, mq_vars, bm_vars, em_vars, fs_vars>>

Init == ApiInit

Next == HandleQuery \/ Tick

Spec == Init /\ [][Next]_vars

----------------------------------------------------------------------------
(* Claims about _fuse_results *)

\* rank (1-indexed position) of chunk id c in a hit list, 0 when absent
RankIn(hits, c) ==
    IF \E i \in 1 .. Len(hits) : Str(hits[i].chunk_id) = c
    THEN CHOOSE i \in 1 .. Len(hits) : Str(hits[i].chunk_id) = c
    ELSE 0

\* C1: a fused chunk found at rank r1 of the lexical list and rank r2 of the
\* vector list has rrf_score 1/(k+r1) + 1/(k+r2), more than either term
\* alone; a chunk found in one list only, at rank r, has exactly 1/(k+r).
C1_RrfScore ==
    fuse_pc = "done" =>
        \A i \in 1 .. Len(sorted_results) :
            LET e == sorted_results[i]
                r1 == RankIn(bm25_results, e.chunk_id)
                r2 == RankIn(vector_results, e.chunk_id)
                s1 == One \div (rrf_k + r1)
                s2 == One \div (rrf_k + r2)
            IN  /\ (r1 > 0 /\ r2 > 0) =>
                    (e.rrf_score = s1 + s2 /\ e.rrf_score > s1 /\ e.rrf_score > s2)
                /\ (r1 > 0 /\ r2 = 0) => e.rrf_score = s1
                /\ (r1 = 0 /\ r2 > 0) => e.rrf_score = s2
                /\ (r1 > 0 \/ r2 > 0)

C1_Witness ==
    /\ fuse_pc = "done"
    /\ \E i, j, l \in 1 .. Len(fused) :
        /\ RankIn(bm25_results, fused[i].chunk_id) = 2
        /\ RankIn(vector_results, fused[i].chunk_id) = 1
        /\ RankIn(bm25_results, fused[j].chunk_id) = 1
        /\ RankIn(vector_results, fused[j].chunk_id) = 0
        /\ RankIn(bm25_results, fused[l].chunk_id) = 0
        /\ RankIn(vector_results, fused[l].chunk_id) = 2

InputIds == {Str(bm25_results[i].chunk_id) : i \in 1 .. Len(bm25_results)}
            \cup {Str(vector_results[i].chunk_id) : i \in 1 .. Len(vector_results)}

\* C2: the fused list is sorted by non-increasing rrf_score, holds each
\* chunk_id at most once, and before the slice to top_k holds every non-empty
\* chunk_id of either input.
C2_SortedUnique ==
    fuse_pc = "done" =>
        /\ \A i, j \in 1 .. Len(sorted_results) :
            i < j => sorted_results[i].rrf_score >= sorted_results[j].rrf_score
        /\ \A i, j \in 1 .. Len(sorted_results) :
            i # j => sorted_results[i].chunk_id # sorted_results[j].chunk_id
        /\ {sorted_results[i].chunk_id : i \in 1 .. Len(sorted_results)}
               = InputIds \ {EmptyId}
        /\ fused = Take(sorted_results, fuse_top_k)

C2_Witness ==
    /\ fuse_pc = "done"
    /\ Len(sorted_results) > fuse_top_k
    /\ Len(fused) >= 2
    /\ EmptyId \in InputIds
    /\ \E i \in 1 .. Len(fused) :
        /\ RankIn(bm25_results, fused[i].chunk_id) > 0
        /\ RankIn(vector_results, fused[i].chunk_id) > 0

\* C3 as stated: fused results of equal rrf_score are in chunk_id lexical
\* order.
C3_TiesLexical ==
    fuse_pc = "done" =>
        \A i, j \in 1 .. Len(sorted_results) :
            (i < j /\ sorted_results[i].rrf_score = sorted_results[j].rrf_score)
                => sorted_results[i].chunk_id < sorted_results[j].chunk_id

\* position at which a chunk id is first seen by the two loops: lexical hits
\* in list order, then the hits found in the vector list only
FirstSeen(c) ==
    IF RankIn(bm25_results, c) > 0
    THEN RankIn(bm25_results, c)
    ELSE Len(bm25_results) + RankIn(vector_results, c)

\* C3 amended: fused results of equal rrf_score are in first-seen order (the
\* hits of the lexical list in list order, then the hits found only in the
\* vector list in list order).
C3_TiesFirstSeen ==
    fuse_pc = "done" =>
        \A i, j \in 1 .. Len(sorted_results) :
            (i < j /\ sorted_results[i].rrf_score = sorted_results[j].rrf_score)
                => FirstSeen(sorted_results[i].chunk_id)
                     < FirstSeen(sorted_results[j].chunk_id)

\* a tie between two lexical hits, and a tie between a lexical-only and a
\* vector-only hit where the first seen has the larger chunk_id
C3_Witness ==
    /\ fuse_pc = "done"
    /\ \E i, j \in 1 .. Len(fused) :
        /\ i < j
        /\ fused[i].rrf_score = fused[j].rrf_score
        /\ fused[i].chunk_id > fused[j].chunk_id
        /\ RankIn(vector_results, fused[i].chunk_id) = 0
        /\ RankIn(bm25_results, fused[j].chunk_id) = 0

----------------------------------------------------------------------------
(* Claims about HybridRetriever.retrieve *)

ChunkIdsOf(results) == [i \in 1 .. Len(results) |-> results[i].chunk_id]

HyTopK == TopKOrDefault(hy_top_k)

HyVectorFailed == ~hy_env.embed_ok \/ hy_env.vector.raised

HyLexicalFailedOrEmpty == hy_env.bm25.raised \/ hy_env.bm25.value = <<>>

\* C4: when the embedding call or the vector search raises, retrieve raises
\* nothing and returns the lexical hits in lexical rank order cut to top_k,
\* non-empty when the lexical retriever returned hits; when the lexical
\* branch raises or is empty it returns the vector hits in vector rank order.
C4_GracefulDegradation ==
    hy_pc = "done" =>
        /\ ~hy_ret.raised
        /\ HyVectorFailed =>
            /\ ChunkIdsOf(hy_ret.value)
                 = Take(ChunkIdsOf(hy_env.bm25.value), HyTopK)
            /\ \A i \in 1 .. Len(hy_ret.value) :
                /\ hy_ret.value[i].bm25_score = hy_env.bm25.value[i].bm25_score
                /\ hy_ret.value[i].vector_score = None
            /\ (~hy_env.bm25.raised /\ hy_env.bm25.value # <<>>)
                 => hy_ret.value # <<>>
        /\ (HyLexicalFailedOrEmpty /\ ~HyVectorFailed) =>
            /\ ChunkIdsOf(hy_ret.value)
                 = Take([i \in 1 .. Len(hy_env.vector.value) |->
                            hy_env.vector.value[i].id], HyTopK)
            /\ \A i \in 1 .. Len(hy_ret.value) :
                /\ hy_ret.value[i].vector_score = hy_env.vector.value[i].similarity
                /\ hy_ret.value[i].bm25_score = None

\* the vector search raised, the lexical list is longer than top_k
C4_Witness ==
    /\ hy_pc = "done"
    /\ hy_env.embed_ok /\ hy_env.vector.raised
    /\ ~hy_env.bm25.raised
    /\ Len(hy_env.bm25.value) > HyTopK
    /\ Len(hy_ret.value) = HyTopK

----------------------------------------------------------------------------
(* Claims about the caches *)

OpKey == KeyOfArgs(cache_op.kind, cache_op.args)

\* the entry the last operation found under its key
OpEntryBefore == cache_pre[OpKey]

\* C8: a get of an entry older than ttl is a miss and removes the entry; a
\* get of an entry of age at most ttl returns the stored value and leaves
\* the cache as it was; no get returns a value older than ttl; a set on an
\* existing key replaces the value and resets the creation time.
C8_TtlLazyEviction ==
    /\ cache_op.op = "get" =>
        /\ OpKey \notin DOMAIN cache_pre =>
            (cache_ret = Absent /\ cache = cache_pre)
        /\ (OpKey \in DOMAIN cache_pre /\ now - OpEntryBefore.timestamp > ttl_seconds) =>
            /\ cache_ret = Absent
            /\ OpKey \notin DOMAIN cache
            /\ DOMAIN cache = DOMAIN cache_pre \ {OpKey}
            /\ \A k \in DOMAIN cache : cache[k] = cache_pre[k]
        /\ (OpKey \in DOMAIN cache_pre /\ now - OpEntryBefore.timestamp <= ttl_seconds) =>
            (cache_ret = Some(OpEntryBefore.value) /\ cache = cache_pre)
        /\ cache_ret # Absent =>
            \E k \in DOMAIN cache_pre :
                /\ k = OpKey
                /\ Some(cache_pre[k].value) = cache_ret
                /\ now - cache_pre[k].timestamp <= ttl_seconds
    /\ cache_op.op = "set" =>
        /\ cache[OpKey] = [value |-> cache_op.value, timestamp |-> now]
        /\ DOMAIN cache = DOMAIN cache_pre \cup {OpKey}
        /\ \A k \in DOMAIN cache_pre \ {OpKey} : cache[k] = cache_pre[k]

\* an expired entry was looked up and removed
C8_Witness ==
    /\ cache_op.op = "get"
    /\ cache_op.kind = "EmbeddingCache"
    /\ OpKey \in DOMAIN cache_pre
    /\ now - OpEntryBefore.timestamp > ttl_seconds
    /\ ttl_seconds > 0
    /\ cache # <<>>

----------------------------------------------------------------------------
(* Claims about the normalisation of similarity *)

NormRaw == RawSimilarity(raw_result)

\* C10: the similarity of a returned result lies in [0,1] whatever the raw
\* score: NaN gives 0.0, +inf 1.0, -inf 0.0, a negative 0.0, a value above 1
\* gives 1.0 (and a value within [0,1] is kept).
C10_SimilarityBounded ==
    norm_pc = "done" =>
        /\ query_result.similarity >= 0
        /\ query_result.similarity <= One
        /\ NormRaw = NaN => query_result.similarity = 0
        /\ NormRaw = PosInf => query_result.similarity = One
        /\ NormRaw = NegInf => query_result.similarity = 0
        /\ (NormRaw # NaN /\ NormRaw < 0) => query_result.similarity = 0
        /\ (NormRaw # NaN /\ NormRaw > One) => query_result.similarity = One
        /\ (NormRaw # NaN /\ NormRaw >= 0 /\ NormRaw <= One)
             => query_result.similarity = NormRaw

\* a NaN rerank score was normalised
C10_Witness ==
    /\ norm_pc = "done"
    /\ raw_result.rerank_score = NaN
    /\ raw_result.rrf_score = 2 * One
    /\ query_result.similarity = 0

----------------------------------------------------------------------------
(* Claims about the query handler *)

\* the handler was called with a user id
Handled == requests_done > 0 /\ x_user_id # ""

\* the cache key of the last request
RequestKey == QueryCacheKey(request.query, RequestCacheFilters(request))

\* the last request found an entry under its key, not older than the TTL
FoundFresh ==
    /\ Handled
    /\ RequestKey \in DOMAIN query_cache_pre
    /\ request_time - query_cache_pre[RequestKey].timestamp <= QueryTTL

\* the last request found an entry under its key, older than the TTL
FoundExpired ==
    /\ Handled
    /\ RequestKey \in DOMAIN query_cache_pre
    /\ request_time - query_cache_pre[RequestKey].timestamp > QueryTTL

\* the last call returned a response it computed
Computed == Handled /\ response.status = 200 /\ invoked # {}

\* the query texts the last call retrieved for
Variants ==
    IF "use_multi_query" \in DOMAIN request /\ request.use_multi_query
    THEN Range(WithOriginalFirst(request.query,
                   IF request.query_variations = Absent
                   THEN GenerateQueryVariations(request.query, collaborators.llm)
                   ELSE request.query_variations[1]))
    ELSE {request.query}

\* every source of the selected search mode failed for the query text q
EverySourceFailed(q) ==
    LET flags == collaborators.flags[q]
        multi == "use_multi_query" \in DOMAIN request /\ request.use_multi_query
    IN  IF multi \/ request.use_hybrid_search
        THEN SourcesFailed(flags)
        ELSE ~flags.embed_ok \/ ~flags.vector_ok

\* C5: a call of the handler ends in an error (HTTP 500) if and only if
\* every retrieval source of its search mode failed for every query variant.
C5_HardFailureIffAllFailed ==
    Handled => (response.status = 500 <=> \A q \in Variants : EverySourceFailed(q))

\* C6: a request that arrives while an entry stored under its query text
\* and filter set is at most TTL old gets exactly the result list stored in
\* that entry, and invokes no retriever, filter or reranker; the entry a
\* computing request leaves under its key holds the result list it returned.
C6_IdempotentCaching ==
    /\ FoundFresh =>
        /\ response.status = 200
        /\ response.body.results = query_cache_pre[RequestKey].value.results
        /\ invoked = {}
    /\ Computed =>
        /\ RequestKey \in DOMAIN query_cache
        /\ query_cache[RequestKey].value.results = response.body.results

\* a second request with a company filter is served the stored list while
\* every source is down
C6_Witness ==
    /\ FoundFresh
    /\ requests_done = 2
    /\ "use_multi_query" \in DOMAIN request
    /\ ListTruthy(request.company_filter)
    /\ collaborators.flags[request.query] = AllDown
    /\ response.body.results # <<>>
    /\ invoked = {}

\* C7: every successful response carries at most the top_k results its
\* request asked for, and its count is the number of results it carries.
C7_AtMostTopK ==
    (Handled /\ response.status = 200) =>
        /\ Len(response.body.results) <= request.top_k
        /\ response.body.count = Len(response.body.results)

\* the stored value of an entry computed by hybrid search without filters
\* shows that the vector branch had failed: no result has a vector score
DegradedEntry(entry) ==
    /\ entry.value.search_mode = "hybrid"
    /\ entry.value.results # <<>>
    /\ \A i \in 1 .. Len(entry.value.results) :
         entry.value.results[i].vector_score = None

----------------------------------------------------------------------------
(* Claims about the choice of the score behind similarity *)

\* the first score of the result that is not None, in the order rerank_score,
\* rrf_score, vector_score, similarity; 0.0 when all are None
FirstNonNull(result) ==
    IF Get(result, "rerank_score") # None THEN Get(result, "rerank_score")
    ELSE IF Get(result, "rrf_score") # None THEN Get(result, "rrf_score")
    ELSE IF Get(result, "vector_score") # None THEN Get(result, "vector_score")
    ELSE IF Get(result, "similarity") # None THEN Get(result, "similarity")
    ELSE 0

\* C11: the similarity of a formatted result is the normalised value of its
\* first score that is not None in the order rerank_score, rrf_score,
\* vector_score, similarity, whatever the value of that score.
C11_FirstNonNullScore ==
    norm_pc = "done" =>
        query_result.similarity = Clamp01(sanitize_float(FirstNonNull(raw_result)))

----------------------------------------------------------------------------
(* SpecRerank: one call of Reranker.rerank, or one pass of the rerank block
   of the handler *)

\* largest number of candidates handed to the reranker in the model
MaxCandidates == 3

\* n retrieval results in rank order
Candidates(n) == [i \in 1 .. n |-> [chunk_id |-> i + 1, rrf_score |-> One \div i]]

\* the scores the cross-encoder gives
ModelScores == {0, One \div 2, One}

\* what self.model.predict(pairs) does: it raises, or returns one score per
\* pair
PredictOutcomes == {Raise} \cup {Ok(s) : s \in [1 .. MaxCandidates -> ModelScores]}

\* a Reranker before its first call, after a successful load and after a
\* failed one
RerankerStates ==
    {[model_loaded |-> FALSE, model_load_failed |-> FALSE],
     [model_loaded |-> TRUE, model_load_failed |-> FALSE],
     [model_loaded |-> FALSE, model_load_failed |-> TRUE]}

RerankInit ==
    /\ FuseIdle /\ HyIdle /\ NormIdle /\ CacheIdle /\ ApiIdle
    /\ FlIdle /\ MqIdle /\ BmIdle /\ EmIdle /\ FsIdle
    /\ rk_documents \in {Candidates(n) : n \in 0 .. MaxCandidates}
    /\ rk_pc \in {"rerank", "stage"}
    /\ rk_top_k \in (IF rk_pc = "rerank" THEN {None} ELSE {}) \cup (1 .. MaxTopK)
    /\ rk_top_n \in IF rk_pc = "rerank" THEN {0} ELSE 1 .. MaxCandidates
    /\ rk_env \in [load_ok : BOOLEAN, predict : PredictOutcomes]
    /\ rk_reranker \in RerankerStates
    /\ rk_ret = <<>>
    /\ rk_prev = rk_reranker
    /\ rk_calls = 0

\* _reranker.rerank(query, documents, top_k)
RerankCall ==
    /\ rk_pc = "rerank"
    /\ LET r == Rerank(rk_reranker, rk_documents, rk_top_k, rk_env)
       IN  /\ rk_ret' = r.results
           /\ rk_reranker' = r.rr
    /\ rk_prev' = rk_reranker
    /\ rk_calls' = rk_calls + 1
    /\ rk_pc' = "done"
    /\ UNCHANGED <<rk_documents, rk_top_k, rk_top_n, rk_env, fuse_vars, hy_vars,
                   norm_vars, cache_vars, api_vars, fl_vars, mq_vars, bm_vars, em_vars, fs_vars>>

\* the block "if request.use_reranking and results" of the handler, for a
\* request with use_reranking
RerankStage ==
    /\ rk_pc = "stage"
    /\ LET req == [top_k |-> rk_top_k, rerank_top_n |-> rk_top_n]
           r == IF rk_documents # <<>>
                THEN RerankStep(rk_reranker, req, rk_documents, rk_env)
                ELSE [results |-> rk_documents, rr |-> rk_reranker]
       IN  /\ rk_ret' = r.results
           /\ rk_reranker' = r.rr
    /\ rk_prev' = rk_reranker
    /\ rk_calls' = rk_calls + 1
    /\ rk_pc' = "staged"
    /\ UNCHANGED <<rk_documents, rk_top_k, rk_top_n, rk_env, fuse_vars, hy_vars,
                   norm_vars, cache_vars, api_vars, fl_vars, mq_vars, bm_vars, em_vars, fs_vars>>

RerankNext == RerankCall \/ RerankStage

SpecRerank == RerankInit /\ [][RerankNext]_vars

----------------------------------------------------------------------------
(* Claims about the rerank stage *)

\* the candidates within the rerank window and those beyond it
RkWindow == Take(rk_documents, rk_top_n)
RkBeyond == Drop(rk_documents, rk_top_n)

\* the stage ran with the model available: it scored the window
RkScored ==
    /\ rk_pc = "staged"
    /\ rk_documents # <<>>
    /\ rk_reranker.model_loaded
    /\ ~rk_env.predict.raised

\* the first n results of the stage are window candidates, each once and
\* with the score the model gave it, in non-increasing score order, and no
\* window candidate left out has a higher score than one of them; the
\* results after them are the candidates beyond the window as they were
RkPrefixRanked(n) ==
    /\ Len(rk_ret) = n + Len(RkBeyond)
    /\ \A i \in 1 .. n :
        /\ PosOf(RkWindow, rk_ret[i].chunk_id) # 0
        /\ rk_ret[i].rerank_score
             = rk_env.predict.value[PosOf(RkWindow, rk_ret[i].chunk_id)]
        /\ \A j \in 1 .. n : i # j => rk_ret[i].chunk_id # rk_ret[j].chunk_id
        /\ i < n => rk_ret[i].rerank_score >= rk_ret[i + 1].rerank_score
        /\ \A w \in 1 .. Len(RkWindow) :
             (\A j \in 1 .. n : rk_ret[j].chunk_id # RkWindow[w].chunk_id)
                => rk_env.predict.value[w] <= rk_ret[i].rerank_score
    /\ \A i \in 1 .. Len(RkBeyond) : rk_ret[n + i] = RkBeyond[i]

\* C12 as stated: the stage returns every window candidate in descending
\* model-score order, followed by every candidate beyond the window in the
\* original order: no candidate is lost or duplicated.
C12_RerankWindow == RkScored => RkPrefixRanked(Len(RkWindow))

\* C12 as the code has it: the stage returns the top_k best-scored window
\* candidates in descending model-score order, followed by every candidate
\* beyond the window in the original order; no candidate is duplicated, and
\* the first top_k results are the first top_k window candidates by score,
\* then candidates beyond the window.
C12_RerankWindowCutToTopK ==
    RkScored =>
        /\ RkPrefixRanked(Min(Len(RkWindow), rk_top_k))
        /\ \A i, j \in 1 .. Len(rk_ret) :
             i # j => rk_ret[i].chunk_id # rk_ret[j].chunk_id

\* the window holds more candidates than top_k, one lies beyond it, and the
\* model reversed the order of the window
C12_Witness ==
    /\ RkScored
    /\ Len(RkWindow) > rk_top_k
    /\ RkBeyond # <<>>
    /\ rk_ret[1].chunk_id = RkWindow[Len(RkWindow)].chunk_id
    /\ rk_ret[1].rerank_score > rk_env.predict.value[1]


\* the call found the model unavailable: the load failed now or earlier
RkLoadFailed == rk_documents # <<>> /\ ~rk_reranker.model_loaded

\* the model was available and predict raised
RkPredictRaised ==
    rk_documents # <<>> /\ rk_reranker.model_loaded /\ rk_env.predict.raised

\* top_k = top_k or len(documents)
RkTopK == IF rk_top_k = None THEN Len(rk_documents) ELSE rk_top_k

----------------------------------------------------------------------------
(* SpecFilter: one call of TemporalFilter.filter_results or of
   EntityFilter.filter_results *)

\* the names of the model: "Acme", "Bolt", "ai", and the filter terms
\* "acme", "BOL", "zz", "AI"
NameAcme == <<101, 3, 13, 5>>
NameBolt == <<102, 15, 12, 20>>
NameAi == <<1, 9>>
TermAcme == <<1, 3, 13, 5>>
TermBol == <<102, 115, 112>>
TermZz == <<26, 26>>
TermAi == <<101, 109>>

\* the results lists of the model: at most two results, each with one of
\* the metadata of pool
ResultLists(pool) ==
    {<<>>}
    \cup {<<[chunk_id |-> 2, metadata |-> m]>> : m \in pool}
    \cup {<<[chunk_id |-> 2, metadata |-> m1], [chunk_id |-> 3, metadata |-> m2]>> :
            m1 \in pool, m2 \in pool}

\* metadata without a date, with a date in published_date or in date, with a
\* text that is no date and with an offset-aware date
DatedMetadata ==
    {<<>>,
     [published_date |-> "recent"],
     [published_date |-> "old"],
     [published_date |-> "", date |-> "recent"],
     [published_date |-> "soon"],
     [date |-> "aware"]}

\* date ranges: none, and every combination of a start out of None, 48 and
\* 24 hours before time 0 and an end out of None, 24 hours before time 0
\* and time 0
DateRanges ==
    {Absent} \cup {Some([start_date |-> s, end_date |-> e]) :
                      s \in {None, -48, -24}, e \in {None, -24, 0}}

\* the shapes of a metadata field of entities: a list of nothing, of a
\* string, of a dict with and without the key, and a value that is no list
EntityFields(key, name) ==
    {[kind |-> "list", items |-> <<>>],
     [kind |-> "list", items |-> <<[kind |-> "str", name |-> name]>>],
     [kind |-> "list", items |-> <<[kind |-> "dict", d |-> (key :> name)]>>],
     [kind |-> "list", items |-> <<[kind |-> "dict", d |-> <<>>]>>],
     [kind |-> "other"]}

\* metadata with and without each of the three fields
EntityMetadata ==
    {<<>>}
    \cup {[companies |-> c] : c \in EntityFields("name", NameAcme)}
    \cup {[companies |-> c, investors |-> i] :
            c \in EntityFields("name", NameBolt),
            i \in {[kind |-> "list", items |-> <<[kind |-> "str", name |-> NameAcme]>>]}}
    \cup {[companies |-> c, sectors |-> x] :
            c \in {[kind |-> "list", items |-> <<[kind |-> "str", name |-> NameAcme]>>]},
            x \in EntityFields("sector", NameAi)}

\* the filters of a call: each dimension not given, empty or a list of terms
EntityFilters ==
    [company : {Absent, Some(<<>>), Some(<<TermAcme>>), Some(<<TermZz, TermBol>>)},
     investor : {Absent, Some(<<TermAcme>>), Some(<<TermZz>>)},
     sector : {Absent, Some(<<TermAi>>)}]

FilterInit ==
    /\ FuseIdle /\ HyIdle /\ NormIdle /\ CacheIdle /\ ApiIdle
    /\ RkIdle /\ MqIdle /\ BmIdle /\ EmIdle /\ FsIdle
    /\ fl_pc \in {"temporal", "entity"}
    /\ fl_results \in ResultLists(IF fl_pc = "temporal" THEN DatedMetadata
                                  ELSE EntityMetadata)
    /\ fl_date_range \in IF fl_pc = "temporal" THEN DateRanges ELSE {Absent}
    /\ fl_filters \in IF fl_pc = "entity" THEN EntityFilters
                      ELSE {[company |-> Absent, investor |-> Absent, sector |-> Absent]}
    /\ fl_ret = <<>>

\* TemporalFilter.filter_results(results, date_range)
TemporalFilterCall ==
    /\ fl_pc = "temporal"
    /\ fl_ret' = IF fl_date_range = Absent THEN fl_results
                 ELSE TemporalFilterResults(fl_results, fl_date_range[1])
    /\ fl_pc' = "temporal_done"
    /\ UNCHANGED <<fl_results, fl_date_range, fl_filters, fuse_vars, hy_vars, norm_vars,
                   cache_vars, api_vars, rk_vars, mq_vars, bm_vars, em_vars, fs_vars>>

\* EntityFilter.filter_results(results, company_filter, investor_filter,
\* sector_filter)
EntityFilterCall ==
    /\ fl_pc = "entity"
    /\ fl_ret' = EntityFilterResults(fl_results, fl_filters.company,
                                     fl_filters.investor, fl_filters.sector)
    /\ fl_pc' = "entity_done"
    /\ UNCHANGED <<fl_results, fl_date_range, fl_filters, fuse_vars, hy_vars, norm_vars,
                   cache_vars, api_vars, rk_vars, mq_vars, bm_vars, em_vars, fs_vars>>

FilterNext == TemporalFilterCall \/ EntityFilterCall

SpecFilter == FilterInit /\ [][FilterNext]_vars

----------------------------------------------------------------------------
(* Claims about the filters *)

\* the results of fl_results that satisfy Keep, in their order
FlSelected(Keep(_)) == SelectSeq(fl_results, Keep)

\* the metadata has no date, or a date value that cannot be parsed, or a
\* date within the range (bounds inclusive, a missing bound is no bound)
KeepByDateRule(result) ==
    LET date_str == DateStrOf(result.metadata)
        d == DateParse(date_str)
        range == fl_date_range[1]
    IN  \/ date_str = ""
        \/ d = None
        \/ /\ (range.start_date # None => range.start_date <= d)
           /\ (range.end_date # None => d <= range.end_date)

\* C14: for every result and date range, the temporal filter keeps the
\* result if its metadata has no date or a date value that cannot be parsed,
\* or if its parsed date d satisfies start <= d <= end.
C14_TemporalRule ==
    (fl_pc = "temporal_done" /\ fl_date_range # Absent) =>
        \A i \in 1 .. Len(fl_results) :
            KeepByDateRule(fl_results[i]) =>
                \E j \in 1 .. Len(fl_ret) : fl_ret[j] = fl_results[i]


\* the entity names the metadata holds in a field: those of the items of a
\* list, none for a missing field or a value of another shape
EntityNamesIn(metadata, field, key) ==
    IF field \in DOMAIN metadata /\ metadata[field].kind = "list"
    THEN {EntityName(metadata[field].items[n], key) :
             n \in 1 .. Len(metadata[field].items)}
    ELSE {}

\* a provided dimension is matched: some entity name contains some filter
\* term, case-insensitively
DimensionMatched(metadata, field, key, filter) ==
    ListTruthy(filter) =>
        \E name \in EntityNamesIn(metadata, field, key), f \in 1 .. Len(filter[1]) :
            Contains(Lower(name), Lower(filter[1][f]))

KeepByEntityRule(result) ==
    /\ DimensionMatched(result.metadata, "companies", "name", fl_filters.company)
    /\ DimensionMatched(result.metadata, "investors", "name", fl_filters.investor)
    /\ DimensionMatched(result.metadata, "sectors", "sector", fl_filters.sector)

\* C15: the entity filter keeps a result if and only if, for every provided
\* dimension, at least one entity name of the result's metadata for that
\* dimension contains, case-insensitively, one of the filter terms; a
\* result with no matching entity in a provided dimension is dropped
\* whatever the shape of that metadata field.
C15_EntityRule ==
    fl_pc = "entity_done" => fl_ret = FlSelected(KeepByEntityRule)


----------------------------------------------------------------------------
(* SpecMultiQuery: one call of MultiQueryRetriever._generate_query_variations
   or of MultiQueryRetriever.retrieve *)

\* longest list of variations a caller gives or the LLM returns, apart from
\* the one list of six
MaxVariations == 2

\* the query texts of the calls: the original query "q1" and two others
MqTexts == {"q1", "q2", "q3"}

VariationLists == UNION {[1 .. n -> MqTexts] : n \in 1 .. MaxVariations}

\* a list longer than the five variations the expander keeps, with the
\* original query last
SixVariations == <<"q2", "q3", "q2", "q3", "q2", "q1">>

\* what llm_client.complete does
LlmOutcomes ==
    {Raise, Ok(Absent), Ok(Some(<<>>)), OkText(<<>>), OkText(<<"q", "2">>),
     Ok(Some(SixVariations))}
    \cup {Ok(Some(l)) : l \in VariationLists}

\* the sources work but the hybrid retriever raises
HybridBroken ==
    [bm25_ok |-> TRUE, embed_ok |-> TRUE, vector_ok |-> TRUE, hybrid_raises |-> TRUE]

\* which sources work for each query text: all, none, all but those of the
\* original query, or all with the hybrid retriever raising for one text
MqFlags ==
    {[q \in MqTexts |-> AllUp], [q \in MqTexts |-> AllDown],
     [q \in MqTexts |-> IF q = "q1" THEN AllDown ELSE AllUp],
     [q \in MqTexts |-> IF q = "q1" THEN HybridBroken
                        ELSE IF q = "q2" THEN AllUp ELSE EmbeddingDown],
     [q \in MqTexts |-> IF q = "q2" THEN HybridBroken ELSE AllUp]}

MultiQueryInit ==
    /\ FuseIdle /\ HyIdle /\ NormIdle /\ CacheIdle /\ ApiIdle
    /\ RkIdle /\ FlIdle /\ BmIdle /\ EmIdle /\ FsIdle
    /\ mq_pc \in {"expand", "retrieve"}
    /\ mq_query = "q1"
    /\ mq_given \in IF mq_pc = "retrieve"
                    THEN {Absent, Some(<<>>)} \cup {Some(l) : l \in VariationLists}
                    ELSE {Absent}
    /\ mq_env \in [llm : IF mq_given = Absent THEN LlmOutcomes ELSE {Raise},
                   flags : IF mq_pc = "retrieve" THEN MqFlags
                           ELSE {[q \in MqTexts |-> AllUp]},
                   top_k : IF mq_pc = "retrieve" THEN {None, 1} ELSE {None}]
    /\ mq_variations = <<>>
    /\ mq_is_list = TRUE
    /\ mq_ran = <<>>
    /\ mq_ret = <<>>

\* _generate_query_variations(query, user_id)
ExpandCall ==
    /\ mq_pc = "expand"
    /\ mq_variations' = GenerateQueryVariations(mq_query, mq_env.llm)
    /\ mq_is_list' = ~GeneratedIsText(mq_env.llm)
    /\ mq_pc' = "expanded"
    /\ UNCHANGED <<mq_query, mq_given, mq_env, mq_ran, mq_ret, fuse_vars, hy_vars,
                   norm_vars, cache_vars, api_vars, rk_vars, fl_vars, bm_vars, em_vars, fs_vars>>

\* retrieve(query, top_k, query_variations)
MultiQueryCall ==
    /\ mq_pc = "retrieve"
    /\ LET r == MultiQueryRetrieve(mq_env, mq_query, mq_env.top_k, mq_given)
       IN  /\ mq_ret' = r
           /\ mq_ran' = IF r.raised THEN <<>>
                        ELSE QueryStrings(mq_env.llm, mq_query, mq_given)
    /\ IF mq_given = Absent
       THEN /\ mq_variations' = GenerateQueryVariations(mq_query, mq_env.llm)
            /\ mq_is_list' = ~GeneratedIsText(mq_env.llm)
       ELSE UNCHANGED <<mq_variations, mq_is_list>>
    /\ mq_pc' = "retrieved"
    /\ UNCHANGED <<mq_query, mq_given, mq_env, fuse_vars, hy_vars,
                   norm_vars, cache_vars, api_vars, rk_vars, fl_vars, bm_vars, em_vars, fs_vars>>

MultiQueryNext == ExpandCall \/ MultiQueryCall

SpecMultiQuery == MultiQueryInit /\ [][MultiQueryNext]_vars

----------------------------------------------------------------------------
(* Claims about multi-query retrieval *)

\* the variations retrieve started from: those of the caller, else those
\* generated
MqVariations == IF mq_given = Absent THEN mq_variations ELSE mq_given[1]

\* C16: the list of query strings that multi-query retrieval runs has the
\* original query as its first element, whether the variations were
\* generated or supplied and whether or not they contained the original
\* query; the strings after it are the other variations.
C16_OriginalFirst ==
    (mq_pc = "retrieved" /\ ~mq_ret.raised) =>
        /\ mq_ran # <<>>
        /\ mq_ran[1] = mq_query
        /\ Range(mq_ran) = Range(MqVariations) \cup {mq_query}

\* the caller supplied variations with the original query in second place
C16_Witness ==
    /\ mq_pc = "retrieved"
    /\ mq_given = Some(<<"q2", "q1">>)
    /\ mq_ran = <<"q1", "q2">>

\* the LLM call raised, or its output holds no non-empty list of queries
ExpansionFailed ==
    \/ mq_env.llm.raised
    \/ mq_env.llm.value = Absent
    \/ mq_env.llm.value[1] = <<>>

\* C17: when the text-generation call raises, or returns output that is no
\* valid JSON or has no non-empty queries list, the expander yields exactly
\* [query] and the request proceeds as a single-query retrieval of the
\* original query.
C17_ExpansionNeverFatal ==
    /\ (mq_pc = "expanded" /\ ExpansionFailed) =>
          mq_is_list /\ mq_variations = <<mq_query>>
    /\ (mq_pc = "retrieved" /\ mq_given = Absent /\ ExpansionFailed) =>
          ~mq_ret.raised /\ mq_ran = <<mq_query>>


----------------------------------------------------------------------------
(* SpecBm25: the lexical adapter over a table of chunks that changes *)

\* largest number of rows of document_chunks in the model
MaxCorpus == 2

\* the contents of a row: no text, or a text by its score for "q1"
ChunkContents == {None, One, 2 * One}

\* the tables of the model: the row in place i has id i + 1
Corpora ==
    UNION {{[i \in 1 .. n |-> [id |-> i + 1, content |-> c[i]]] :
               c \in [1 .. n -> ChunkContents]} : n \in 0 .. MaxCorpus}

Bm25Init ==
    /\ FuseIdle /\ HyIdle /\ NormIdle /\ CacheIdle /\ ApiIdle
    /\ RkIdle /\ FlIdle /\ MqIdle /\ EmIdle /\ FsIdle
    /\ bm_source \in Corpora
    /\ bm_obj = [bm25 |-> Absent, chunks |-> <<>>, index_built |-> FALSE]
    /\ bm_op = [name |-> "init"]
    /\ bm_ret = <<>>
    /\ bm_pc = "ready"

\* rows are inserted into and deleted from document_chunks
CorpusChange ==
    /\ bm_pc = "ready"
    /\ \E c \in Corpora \ {bm_source} : bm_source' = c
    /\ bm_op' = [name |-> "corpus"]
    /\ UNCHANGED <<bm_obj, bm_ret, bm_pc, fuse_vars, hy_vars, norm_vars, cache_vars,
                   api_vars, rk_vars, fl_vars, mq_vars, em_vars, fs_vars>>

\* build_index()
BuildIndexCall ==
    /\ bm_pc = "ready"
    /\ \E load_ok \in BOOLEAN :
        LET b == BuildIndex(bm_obj, bm_source, load_ok)
        IN  /\ bm_obj' = b.obj
            /\ bm_ret' = IF b.raised THEN Raise ELSE Ok(None)
            /\ bm_op' = [name |-> "build_index", load_ok |-> load_ok]
    /\ UNCHANGED <<bm_source, bm_pc, fuse_vars, hy_vars, norm_vars, cache_vars,
                   api_vars, rk_vars, fl_vars, mq_vars, em_vars, fs_vars>>

\* refresh_index()
RefreshIndexCall ==
    /\ bm_pc = "ready"
    /\ bm_obj' = RefreshIndex(bm_obj)
    /\ bm_ret' = Ok(None)
    /\ bm_op' = [name |-> "refresh_index"]
    /\ UNCHANGED <<bm_source, bm_pc, fuse_vars, hy_vars, norm_vars, cache_vars,
                   api_vars, rk_vars, fl_vars, mq_vars, em_vars, fs_vars>>

\* retrieve(query, top_k)
Bm25RetrieveCall ==
    /\ bm_pc = "ready"
    /\ \E query \in Queries, top_k \in {None, 1}, load_ok \in BOOLEAN, scores_ok \in BOOLEAN :
        LET r == Bm25Retrieve(bm_obj, bm_source, load_ok, scores_ok, query, top_k)
        IN  /\ bm_obj' = r.obj
            /\ bm_ret' = r.outcome
            /\ bm_op' = [name |-> "retrieve", top_k |-> top_k, load_ok |-> load_ok]
    /\ UNCHANGED <<bm_source, bm_pc, fuse_vars, hy_vars, norm_vars, cache_vars,
                   api_vars, rk_vars, fl_vars, mq_vars, em_vars, fs_vars>>

Bm25Next == CorpusChange \/ BuildIndexCall \/ RefreshIndexCall \/ Bm25RetrieveCall

SpecBm25 == Bm25Init /\ [][Bm25Next]_vars

----------------------------------------------------------------------------
(* Claims about the lexical adapter *)

\* the last operation was a retrieve that returned hits
Bm25Returned == bm_pc = "ready" /\ bm_op.name = "retrieve" /\ ~bm_ret.raised

\* the place of the chunk of a hit in the rows the index was built from
Bm25IndexPlace(hit) ==
    CHOOSE i \in 1 .. Len(bm_obj.bm25[1]) : bm_obj.bm25[1][i].id = hit.chunk_id

\* top_k or settings.bm25_top_k of the last retrieve
Bm25K == IF bm_op.top_k = None THEN bm25_top_k ELSE bm_op.top_k

C19_EmptyCorpus ==
    (bm_pc = "ready" /\ bm_op.name = "retrieve" /\ bm_op.load_ok /\ bm_source = <<>>) =>
        bm_ret = Ok(<<>>)


----------------------------------------------------------------------------
(* SpecEmbed: one call of LLMServiceClient.generate_embedding *)

\* what the embedding service does with one POST: it answers with an
\* embedding, or the call fails with an HTTP error status, a timeout or a
\* body without "embedding"
ServiceAnswers ==
    {[ok |-> TRUE, embedding |-> e] : e \in {"v1", "v2"}}
    \cup {[ok |-> FALSE, error |-> k] : k \in {"status", "timeout", "no_embedding"}}

\* the answers to one more POST than the client may make
ServiceRuns == [1 .. embedding_max_retries + 2 -> ServiceAnswers]

\* the cache before the call: empty, or holding an embedding stored at time
\* 0 for the text or for another text
EmbedCaches(text) ==
    {<<>>,
     EmbeddingCacheSet(<<>>, text, "v0", 0),
     EmbeddingCacheSet(<<>>, "other", "v0", 0)}

EmbedInit ==
    /\ FuseIdle /\ HyIdle /\ NormIdle /\ CacheIdle /\ ApiIdle
    /\ RkIdle /\ FlIdle /\ MqIdle /\ BmIdle /\ FsIdle
    /\ em_text \in Queries
    /\ em_cache \in EmbedCaches(em_text)
    /\ em_service \in ServiceRuns
    /\ em_now \in {0, EmbeddingTTL, EmbeddingTTL + 1}
    /\ em_ret = <<>>
    /\ em_pc = "call"

\* generate_embedding(text)
EmbedCall ==
    /\ em_pc = "call"
    /\ em_ret' = GenerateEmbeddingRetry(em_cache, em_text, em_service, 0, 0, em_now)
    /\ em_pc' = "done"
    /\ UNCHANGED <<em_text, em_cache, em_service, em_now, fuse_vars, hy_vars, norm_vars,
                   cache_vars, api_vars, rk_vars, fl_vars, mq_vars, bm_vars, fs_vars>>

EmbedNext == EmbedCall

SpecEmbed == EmbedInit /\ [][EmbedNext]_vars

----------------------------------------------------------------------------
(* Claims about embedding generation *)

\* the call found no fresh embedding of the text in the cache
EmMiss ==
    \/ EmbeddingCacheKey(em_text) \notin DOMAIN em_cache
    \/ em_now - em_cache[EmbeddingCacheKey(em_text)].timestamp > EmbeddingTTL

\* the POSTs the client may make for one request
EmPermitted == 1 .. embedding_max_retries + 1

\* the first permitted POST the service answers, 0 if it answers none
EmFirstOk ==
    IF \E k \in EmPermitted : em_service[k].ok
    THEN CHOOSE k \in EmPermitted :
            em_service[k].ok /\ \A j \in 1 .. k - 1 : ~em_service[j].ok
    ELSE 0

\* C20: generate_embedding makes at most max_retries + 1 calls to the
\* embedding service for one request, waits retry_delay * 2^i before retry
\* i + 1, returns and caches the embedding of the first successful call, and
\* raises a typed error once the last permitted call has failed.
C20_BoundedRetry ==
    (em_pc = "done" /\ EmMiss) =>
        /\ em_ret.calls <= embedding_max_retries + 1
        /\ em_ret.sleeps = [i \in 1 .. em_ret.calls - 1 |->
                               embedding_retry_delay * 2 ^ (i - 1)]
        /\ IF EmFirstOk # 0
           THEN /\ em_ret.calls = EmFirstOk
                /\ em_ret.outcome = Ok(em_service[EmFirstOk].embedding)
                /\ em_ret.cache[EmbeddingCacheKey(em_text)].value
                     = em_service[EmFirstOk].embedding
           ELSE /\ em_ret.calls = embedding_max_retries + 1
                /\ em_ret.outcome.raised
                /\ em_ret.outcome.type = "ValueError"
                /\ EmbeddingCacheKey(em_text) \notin DOMAIN em_ret.cache

\* the service failed twice and answered the third call
C20_Witness ==
    /\ em_pc = "done"
    /\ EmMiss
    /\ EmFirstOk = 3
    /\ em_ret.calls = 3
    /\ em_ret.sleeps = <<embedding_retry_delay, 2 * embedding_retry_delay>>
    /\ ~em_ret.outcome.raised


----------------------------------------------------------------------------
(* Claims about the choice of the retrieval path *)

\* the retrievers of the handler
Retrievers == {"multi_query_retriever", "hybrid_retriever", "vector_only_retriever"}

\* the request asks for multi-query retrieval
AsksMultiQuery == "use_multi_query" \in DOMAIN request /\ request.use_multi_query

\* C21: a request with a user id that misses the cache, and whose sources
\* do not all fail, completes successfully and uses exactly one retrieval
\* path: multi-query when use_multi_query is set, otherwise hybrid when
\* use_hybrid_search is true, otherwise vector-only; a request that does not
\* mention multi-query is served by the hybrid or vector path.
C21_SearchModeSelection ==
    (Handled /\ x_user_id # "" /\ ~FoundFresh
        /\ ~(\A q \in Variants : EverySourceFailed(q))) =>
        /\ response.status = 200
        /\ invoked \cap Retrievers =
             IF AsksMultiQuery THEN {"multi_query_retriever"}
             ELSE IF request.use_hybrid_search THEN {"hybrid_retriever"}
             ELSE {"vector_only_retriever"}
        /\ response.body.search_mode =
             IF AsksMultiQuery THEN "multi_query"
             ELSE IF request.use_hybrid_search THEN "hybrid"
             ELSE "vector"


----------------------------------------------------------------------------
(* Claims about a date filter that cannot be resolved *)

\* what the handler answers, on the service as the last request found it
\* when that request was the first, to the last request without its date
\* filter
WithoutDateFilter ==
    Query([request EXCEPT !.date_filter = Absent], x_user_id, collaborators,
          query_cache_pre, [model_loaded |-> FALSE, model_load_failed |-> FALSE],
          request_time)

\* the last request carried a date filter that parse_filter resolves to None
DateFilterUnresolved ==
    /\ Handled
    /\ requests_done = 1
    /\ DateFilterTruthy(request.date_filter)
    /\ ParseFilter(request.date_filter, request_time) = Absent

\* C22: when parse_filter cannot resolve the supplied date filter, the
\* temporal filter stage is skipped and the request (whose sources do not
\* all fail) returns, without error, the results it would return with no
\* date filter.
C22_InvalidDateFilterSkipped ==
    (DateFilterUnresolved /\ ~(\A q \in Variants : EverySourceFailed(q))) =>
        /\ response.status = 200
        /\ response.body.results = WithoutDateFilter.response.body.results


----------------------------------------------------------------------------
(* SpecRerankLife: the Reranker of the process under successive rerank
   calls *)

\* number of rerank calls in a run
MaxRerankCalls == 3

\* Reranker(): no model, no load attempted
NewReranker == [model_loaded |-> FALSE, model_load_failed |-> FALSE]

RerankLifeInit ==
    /\ FuseIdle /\ HyIdle /\ NormIdle /\ CacheIdle /\ ApiIdle
    /\ FlIdle /\ MqIdle /\ BmIdle /\ EmIdle /\ FsIdle
    /\ rk_documents = <<>>
    /\ rk_top_k = None
    /\ rk_top_n = 0
    /\ rk_env = <<>>
    /\ rk_reranker = NewReranker
    /\ rk_ret = <<>>
    /\ rk_prev = NewReranker
    /\ rk_calls = 0
    /\ rk_pc = "life"

\* one more rerank(query, documents) on the same object
RerankLifeCall ==
    /\ rk_pc = "life"
    /\ rk_calls < MaxRerankCalls
    /\ \E documents \in {Candidates(n) : n \in 0 .. 2},
          top_k \in {None, 1},
          renv \in [load_ok : BOOLEAN,
                    predict : {Raise, Ok([i \in 1 .. MaxCandidates |-> One \div i]),
                               Ok([i \in 1 .. MaxCandidates |-> 0])}] :
        LET r == Rerank(rk_reranker, documents, top_k, renv)
        IN  /\ rk_documents' = documents
            /\ rk_top_k' = top_k
            /\ rk_env' = renv
            /\ rk_ret' = r.results
            /\ rk_reranker' = r.rr
    /\ rk_prev' = rk_reranker
    /\ rk_calls' = rk_calls + 1
    /\ UNCHANGED <<rk_top_n, rk_pc, fuse_vars, hy_vars, norm_vars,
                   cache_vars, api_vars, fl_vars, mq_vars, bm_vars, em_vars, fs_vars>>

RerankLifeNext == RerankLifeCall

SpecRerankLife == RerankLifeInit /\ [][RerankLifeNext]_vars

----------------------------------------------------------------------------
(* Claims about the life of the reranker model *)

Unloaded(rr) == ~rr.model_loaded /\ ~rr.model_load_failed
Loaded(rr) == rr.model_loaded /\ ~rr.model_load_failed
LoadFailed(rr) == ~rr.model_loaded /\ rr.model_load_failed

\* C23: the model state starts Unloaded; a rerank call changes it only when
\* it is Unloaded and the call has a non-empty candidate list, and then to
\* Loaded or to LoadFailed as the load goes (a rerank of an empty list
\* returns [] and loads nothing); from LoadFailed and from Loaded no call
\* changes it.
C23_ModelStateMachine ==
    rk_pc = "life" =>
        /\ Unloaded(rk_reranker) \/ Loaded(rk_reranker) \/ LoadFailed(rk_reranker)
        /\ rk_calls = 0 => Unloaded(rk_reranker)
        /\ rk_calls > 0 =>
            /\ rk_documents = <<>> => (rk_reranker = rk_prev /\ rk_ret = <<>>)
            /\ LoadFailed(rk_prev) => rk_reranker = rk_prev
            /\ Loaded(rk_prev) => rk_reranker = rk_prev
            /\ (Unloaded(rk_prev) /\ rk_documents # <<>>) =>
                 IF rk_env.load_ok THEN Loaded(rk_reranker) ELSE LoadFailed(rk_reranker)

\* a call with candidates, made after a failed load while the model could
\* now be loaded, leaves the state LoadFailed and returns the candidates
C23_Witness ==
    /\ rk_pc = "life"
    /\ rk_calls > 1
    /\ LoadFailed(rk_prev)
    /\ rk_documents # <<>>
    /\ rk_env.load_ok
    /\ LoadFailed(rk_reranker)
    /\ rk_ret = rk_documents


\* a retrieve now would reach the scoring of the stored index: its implicit
\* build_index, if any, returns, and the scorer and the chunk list are set
Bm25CanRead ==
    /\ bm_pc = "ready"
    /\ LET b == IF ~bm_obj.index_built \/ bm_obj.bm25 = Absent
                THEN BuildIndex(bm_obj, bm_source, TRUE)
                ELSE [obj |-> bm_obj, raised |-> FALSE]
       IN  ~b.raised /\ b.obj.bm25 # Absent /\ b.obj.chunks # <<>>
                     /\ b.obj = bm_obj

\* C24: in every state in which a lexical search can read the index, the
\* stored chunk list and the stored scorer were built from the same corpus
\* snapshot, so each score is paired with the chunk it was computed for.
C24_AtomicIndexReplacement ==
    Bm25CanRead => bm_obj.bm25 = Some(bm_obj.chunks)


----------------------------------------------------------------------------
(* SpecHybridSteps: one call of HybridRetriever.retrieve, one step per
   point at which the coroutine starts or finishes awaiting a collaborator *)

\* the locals of the call: which retrievals were started and which have
\* completed or failed, bm25_results, vector_results and the returned value
HybridFrame(started, completed, bm25, vector, ret) ==
    [started |-> started, completed |-> completed, bm25_results |-> bm25,
     vector_results |-> vector, ret |-> ret]

HybridStepsInit ==
    /\ FuseIdle /\ NormIdle /\ CacheIdle /\ ApiIdle
    /\ RkIdle /\ FlIdle /\ MqIdle /\ BmIdle /\ EmIdle /\ FsIdle
    /\ hy_env \in HybridEnvs
    /\ hy_top_k \in {None} \cup (1 .. MaxTopK)
    /\ hy_ret = HybridFrame({}, {}, <<>>, <<>>, Absent)
    /\ hy_pc = "call"

HybridStepsUnchanged ==
    UNCHANGED <<hy_env, hy_top_k, fuse_vars, norm_vars, cache_vars, api_vars,
                rk_vars, fl_vars, mq_vars, bm_vars, em_vars, fs_vars>>

\* bm25_results = await self.bm25_retriever.retrieve(...): the call is made
StartBm25 ==
    /\ hy_pc = "call"
    /\ hy_ret' = [hy_ret EXCEPT !.started = @ \cup {"bm25"}]
    /\ hy_pc' = "bm25"
    /\ HybridStepsUnchanged

\* ... and returns or raises; the except clause leaves bm25_results empty
AwaitBm25 ==
    /\ hy_pc = "bm25"
    /\ hy_ret' = [hy_ret EXCEPT
                    !.completed = @ \cup {"bm25"},
                    !.bm25_results =
                        HybridBm25Branch(hy_env, TopKOrDefault(hy_top_k), TRUE)]
    /\ hy_pc' = "bm25_done"
    /\ HybridStepsUnchanged

\* query_embedding = await self.llm_client.generate_embedding(...): the
\* call is made
StartEmbedding ==
    /\ hy_pc = "bm25_done"
    /\ hy_ret' = [hy_ret EXCEPT !.started = @ \cup {"vector"}]
    /\ hy_pc' = "embedding"
    /\ HybridStepsUnchanged

\* ... and returns, after which vector_store.search is called, or raises
AwaitEmbedding ==
    /\ hy_pc = "embedding"
    /\ IF hy_env.embed_ok
       THEN /\ hy_pc' = "search"
            /\ UNCHANGED hy_ret
       ELSE /\ hy_pc' = "vector_done"
            /\ hy_ret' = [hy_ret EXCEPT !.completed = @ \cup {"vector"}]
    /\ HybridStepsUnchanged

\* vector_store.search returns and its rows are formatted, or it raises
AwaitSearch ==
    /\ hy_pc = "search"
    /\ hy_ret' = [hy_ret EXCEPT
                    !.completed = @ \cup {"vector"},
                    !.vector_results =
                        HybridVectorBranch(hy_env, TopKOrDefault(hy_top_k),
                                           TRUE).value]
    /\ hy_pc' = "vector_done"
    /\ HybridStepsUnchanged

\* fused_results = self._fuse_results(bm25_results, vector_results, top_k)
FuseStep ==
    /\ hy_pc = "vector_done"
    /\ hy_ret' = [hy_ret EXCEPT
                    !.ret = Some(Ok(FuseResults(hy_ret.bm25_results,
                                                hy_ret.vector_results,
                                                TopKOrDefault(hy_top_k))))]
    /\ hy_pc' = "returned"
    /\ HybridStepsUnchanged

HybridStepsNext ==
    \/ StartBm25
    \/ AwaitBm25
    \/ StartEmbedding
    \/ AwaitEmbedding
    \/ AwaitSearch
    \/ FuseStep

SpecHybridSteps == HybridStepsInit /\ [][HybridStepsNext]_vars

\* the steps return what the one-step model of the call returns
HybridStepsAgree ==
    hy_pc = "returned" =>
        hy_ret.ret = Some(HybridRetrieve(hy_env, hy_top_k, TRUE, TRUE))

\* C25: the lexical and the vector retrieval of one variant run concurrently:
\* neither has completed or failed before the other was started, and the
\* fusion starts only after both have completed or failed.
C25_FanOutFanIn ==
    /\ "bm25" \in hy_ret.completed => "vector" \in hy_ret.started
    /\ "vector" \in hy_ret.completed => "bm25" \in hy_ret.started
    /\ hy_pc = "returned" => hy_ret.completed = {"bm25", "vector"}

\* the fan-in half of C25: fusion starts only after both retrievals have
\* completed or failed
FanInBeforeFusion ==
    hy_pc = "returned" => hy_ret.completed = {"bm25", "vector"}


----------------------------------------------------------------------------
(* Claims about the merge of the query variations *)

\* the retrieval of the i-th query string that retrieve ran
MqVariant(i) ==
    HybridOutcome(mq_ran[i], mq_env.flags[mq_ran[i]], TopKOrDefault(mq_env.top_k) * 2)

\* all_results at the end of the loop, before the sort and the cut
MqMerged == MultiQueryLoop(mq_env, mq_ran, 1, TopKOrDefault(mq_env.top_k), <<>>)

\* the variation i returned a result for the chunk_id c
MqReturns(i, c) ==
    /\ ~MqVariant(i).raised
    /\ \E k \in 1 .. Len(MqVariant(i).value) : MqVariant(i).value[k].chunk_id = c

\* the first result of the variation i for the chunk_id c
MqFirstHit(i, c) ==
    LET v == MqVariant(i).value
        k == CHOOSE k \in 1 .. Len(v) :
                 /\ v[k].chunk_id = c
                 /\ \A l \in 1 .. k - 1 : v[l].chunk_id # c
    IN  v[k]

\* C26: the merged set holds exactly one entry for every chunk_id some
\* variation returned, the entry of the earliest variation in list order
\* that returned it with its scores unchanged; a variation whose retrieval
\* raises adds nothing and the variations after it are still merged.
C26_FirstOccurrenceWins ==
    (mq_pc = "retrieved" /\ ~mq_ret.raised) =>
        /\ \A i \in 1 .. Len(mq_ran) : \A c \in RealIds :
              (MqReturns(i, c) /\ \A h \in 1 .. i - 1 : ~MqReturns(h, c)) =>
                  /\ Cardinality({j \in 1 .. Len(MqMerged) :
                                      MqMerged[j].chunk_id = c}) = 1
                  /\ \E j \in 1 .. Len(MqMerged) :
                        MqMerged[j] = [query_variation |-> mq_ran[i]]
                                          @@ MqFirstHit(i, c)
        /\ \A j \in 1 .. Len(MqMerged) :
              \E i \in 1 .. Len(mq_ran) : MqReturns(i, MqMerged[j].chunk_id)
        /\ mq_ret.value = Take(SortByKeyDesc(MqMerged),
                               TopKOrDefault(mq_env.top_k))

\* C26 witness: the first variation raised, the second and the third both
\* returned chunk 3 with different rrf_scores, and the merged set holds the
\* entry of the second
C26_Witness ==
    /\ mq_pc = "retrieved" /\ ~mq_ret.raised
    /\ Len(mq_ran) = 3
    /\ MqVariant(1).raised
    /\ MqReturns(2, 3) /\ MqReturns(3, 3)
    /\ MqFirstHit(2, 3).rrf_score # MqFirstHit(3, 3).rrf_score
    /\ \E j \in 1 .. Len(MqMerged) :
          /\ MqMerged[j].chunk_id = 3
          /\ MqMerged[j].rrf_score = MqFirstHit(2, 3).rrf_score
          /\ MqMerged[j].query_variation = mq_ran[2]


----------------------------------------------------------------------------
(* SpecFuseSteps: one call of _fuse_results, one step per loop iteration *)

\* longest hit list of a stepped call
MaxStepLen == 2

StepIdLists == {ids \in SeqsUpTo(RawIds, MaxStepLen) : DistinctIds(ids)}

\* vector hits whose first row came without a similarity
NullFirst(hits) ==
    [r \in 1 .. Len(hits) |->
        IF r = 1 THEN [hits[r] EXCEPT !.vector_score = None] ELSE hits[r]]

FuseStepsInit ==
    /\ HyIdle /\ NormIdle /\ CacheIdle /\ ApiIdle
    /\ RkIdle /\ FlIdle /\ MqIdle /\ BmIdle /\ EmIdle /\ FsIdle
    /\ bm25_results \in {Bm25Hits(ids) : ids \in StepIdLists}
    /\ vector_results \in {VectorHits(ids) : ids \in StepIdLists}
                          \cup {NullFirst(VectorHits(ids)) : ids \in StepIdLists}
    /\ fuse_top_k = MaxTopK
    /\ sorted_results = <<>>
    /\ fused = <<>>
    /\ fuse_result_map = <<>>
    /\ fuse_rank = 1
    /\ fuse_pc = "bm25"

FuseStepsUnchanged ==
    UNCHANGED <<bm25_results, vector_results, fuse_top_k, hy_vars, norm_vars,
                cache_vars, api_vars, rk_vars, fl_vars, mq_vars, bm_vars, em_vars, fs_vars>>

\* one iteration of "for rank, result in enumerate(bm25_results, start=1)"
Bm25Iteration ==
    /\ fuse_pc = "bm25" /\ fuse_rank <= Len(bm25_results)
    /\ fuse_result_map' = FuseBm25Step(fuse_result_map, bm25_results[fuse_rank],
                                       fuse_rank)
    /\ fuse_rank' = fuse_rank + 1
    /\ UNCHANGED <<sorted_results, fused, fuse_pc>>
    /\ FuseStepsUnchanged

\* the lexical loop ends and the vector loop begins
Bm25LoopEnd ==
    /\ fuse_pc = "bm25" /\ fuse_rank > Len(bm25_results)
    /\ fuse_pc' = "vector"
    /\ fuse_rank' = 1
    /\ UNCHANGED <<sorted_results, fused, fuse_result_map>>
    /\ FuseStepsUnchanged

\* one iteration of "for rank, result in enumerate(vector_results, start=1)"
VectorIteration ==
    /\ fuse_pc = "vector" /\ fuse_rank <= Len(vector_results)
    /\ fuse_result_map' = FuseVectorStep(fuse_result_map, vector_results[fuse_rank],
                                         fuse_rank)
    /\ fuse_rank' = fuse_rank + 1
    /\ UNCHANGED <<sorted_results, fused, fuse_pc>>
    /\ FuseStepsUnchanged

\* sorted(result_map.values(), ...) and the slice [:top_k]
SortAndSlice ==
    /\ fuse_pc = "vector" /\ fuse_rank > Len(vector_results)
    /\ sorted_results' = SortByRrfDesc(fuse_result_map)
    /\ fused' = Take(SortByRrfDesc(fuse_result_map), fuse_top_k)
    /\ fuse_pc' = "done"
    /\ UNCHANGED <<fuse_result_map, fuse_rank>>
    /\ FuseStepsUnchanged

FuseStepsNext ==
    \/ Bm25Iteration
    \/ Bm25LoopEnd
    \/ VectorIteration
    \/ SortAndSlice

SpecFuseSteps == FuseStepsInit /\ [][FuseStepsNext]_vars

\* the steps return what the one-step model of the call returns
FuseStepsAgree ==
    fuse_pc = "done" =>
        fused = FuseResults(bm25_results, vector_results, fuse_top_k)

\* the hits of each list that the loops have processed
Bm25Processed ==
    IF fuse_pc = "bm25" THEN Take(bm25_results, fuse_rank - 1) ELSE bm25_results

VectorProcessed ==
    IF fuse_pc = "bm25" THEN <<>>
    ELSE IF fuse_pc = "vector" THEN Take(vector_results, fuse_rank - 1)
    ELSE vector_results

\* the raw score (field) of the first hit for chunk_id among hits, None if
\* there is no such hit
FirstRawScore(hits, chunk_id, field) ==
    LET at == {i \in 1 .. Len(hits) : Str(hits[i].chunk_id) = chunk_id}
    IN  IF at = {} THEN None
        ELSE hits[CHOOSE i \in at : \A j \in at : i <= j][field]

\* every entry of result_map carries the raw scores of the first lexical
\* and the first vector hit processed for its chunk_id
FirstHitScoresKept ==
    \A p \in 1 .. Len(fuse_result_map) :
        LET entry == fuse_result_map[p]
        IN  /\ entry.bm25_score
                 = FirstRawScore(Bm25Processed, entry.chunk_id, "bm25_score")
            /\ entry.vector_score
                 = FirstRawScore(VectorProcessed, entry.chunk_id, "vector_score")

\* a step keeps every entry of result_map in its place, lowers no
\* rrf_score and changes no raw score that was recorded
EntriesKept ==
    \A p \in 1 .. Len(fuse_result_map) :
        /\ p <= Len(fuse_result_map')
        /\ fuse_result_map'[p].chunk_id = fuse_result_map[p].chunk_id
        /\ fuse_result_map'[p].rrf_score >= fuse_result_map[p].rrf_score
        /\ fuse_result_map[p].bm25_score # None
             => fuse_result_map'[p].bm25_score = fuse_result_map[p].bm25_score
        /\ fuse_result_map[p].vector_score # None
             => fuse_result_map'[p].vector_score = fuse_result_map[p].vector_score

\* C27: while the lexical list and then the vector list are processed, the
\* rrf_score stored for a chunk_id never decreases, and the raw lexical and
\* raw vector score stored for it are those of the first hit of that kind
\* processed for it and are never overwritten by a later hit.
C27_AccumulatorInvariant ==
    /\ [] FirstHitScoresKept
    /\ [][EntriesKept]_vars

\* C27 witness: a chunk_id that the lexical loop entered has received a
\* vector hit: its rrf_score holds both contributions and both raw scores
\* are recorded
C27_Witness ==
    /\ fuse_pc = "vector"
    /\ \E p \in 1 .. Len(fuse_result_map) :
          /\ fuse_result_map[p].bm25_score # None
          /\ fuse_result_map[p].vector_score # None
          /\ fuse_result_map[p].rrf_score > rrf_score(1, rrf_k)


----------------------------------------------------------------------------
(* Claims about the reranking flag of the response *)

\* the candidates the handler hands to the rerank stage: the results of
\* the retrieval after the temporal and the entity filter
RerankCandidates ==
    LET ret == RetrieveByMode(request, collaborators).outcome.value
        dated == IF DateFilterTruthy(request.date_filter)
                 THEN LET date_range == ParseFilter(request.date_filter, request_time)
                      IN  IF date_range # Absent
                          THEN TemporalFilterResults(ret, date_range[1])
                          ELSE ret
                 ELSE ret
    IN  EntityFilterResults(dated, request.company_filter,
                            request.investor_filter, request.sector_filter)

\* the chunk_ids, as the response shows them, of the candidates inside the
\* rerank window
RerankWindowIds ==
    LET window == Take(RerankCandidates, request.rerank_top_n)
    IN  {FormatResult(window[i]).chunk_id : i \in 1 .. Len(window)}

\* C28: a computed response reports reranking_enabled = true only if the
\* cross-encoder was available and scored the candidates, and then every
\* returned result from inside the rerank window has a rerank_score.
C28_RerankingReported ==
    (Computed /\ response.body.reranking_enabled) =>
        /\ collaborators.renv.load_ok
        /\ ~collaborators.renv.predict.raised
        /\ \A i \in 1 .. Len(response.body.results) :
              response.body.results[i].chunk_id \in RerankWindowIds
                  => response.body.results[i].rerank_score # None

\* the reranking flag is true exactly when the request asked for reranking
\* and the filters left a candidate
RerankingFlagAsComputed ==
    Computed =>
        (response.body.reranking_enabled
            <=> (request.use_reranking /\ RerankCandidates # <<>>))

\* with a cross-encoder that loaded and scored, the flag is true and every
\* returned result from inside the window has a rerank_score
RerankingReportedWhenScored ==
    (Computed /\ response.body.reranking_enabled
        /\ collaborators.renv.load_ok /\ ~collaborators.renv.predict.raised) =>
        \A i \in 1 .. Len(response.body.results) :
            response.body.results[i].chunk_id \in RerankWindowIds
                => response.body.results[i].rerank_score # None


----------------------------------------------------------------------------
(* Claims about the retrieval options of a cached response *)

\* the search_mode the last request asks for
RequestedSearchMode ==
    IF AsksMultiQuery THEN "multi_query"
    ELSE IF request.use_hybrid_search THEN "hybrid"
    ELSE "vector"

\* C29: a response served from the result cache was computed under the
\* retrieval options of the request it is served to: it has the search_mode
\* the request asks for and reports reranking only if the request asks for
\* it.
C29_CachedUnderSameOptions ==
    (FoundFresh /\ response.status = 200) =>
        /\ response.body.search_mode = RequestedSearchMode
        /\ response.body.reranking_enabled => request.use_reranking


----------------------------------------------------------------------------
(* ingestion/scheduler.py: FeedScheduler.start, stop, is_running and the
   tasks start() creates *)

\* number of start() and stop() calls in a behaviour
MaxSchedulerCalls == 3

\* asyncio.create_task(coro): a task of the given kind, created by the
\* start() number epoch, that has not run yet
NewTask(kind, epoch) == [kind |-> kind, epoch |-> epoch, pc |-> "created"]

\* "while self._running": the loop sleeps again or returns
WhileRunning(running) == IF running THEN "sleeping" ELSE "done"

\* is_running()
IsRunning == fs_running

SchedulerInit ==
    /\ FuseIdle /\ HyIdle /\ NormIdle /\ CacheIdle /\ ApiIdle
    /\ RkIdle /\ FlIdle /\ MqIdle /\ BmIdle /\ EmIdle
    /\ fs_running = FALSE
    /\ fs_scheduler = "new"
    /\ fs_epoch = 0
    /\ fs_tasks = <<>>
    /\ fs_stale_load = FALSE
    /\ fs_last = <<>>
    /\ fs_calls = 0
    /\ fs_pc = "live"

SchedulerUnchanged ==
    UNCHANGED <<fuse_vars, hy_vars, norm_vars, cache_vars, api_vars,
                rk_vars, fl_vars, mq_vars, bm_vars, em_vars>>

\* start()
StartCall ==
    /\ fs_pc = "live" /\ fs_calls < MaxSchedulerCalls
    /\ IF ~fs_running
       THEN /\ fs_scheduler' = "running"
            /\ fs_running' = TRUE
            /\ fs_epoch' = fs_epoch + 1
            /\ fs_tasks' = fs_tasks \o <<NewTask("load_feeds", fs_epoch + 1),
                                         NewTask("refresh", fs_epoch + 1)>>
       ELSE UNCHANGED <<fs_scheduler, fs_running, fs_epoch, fs_tasks>>
    /\ fs_last' = [op |-> "start", was_running |-> fs_running]
    /\ fs_calls' = fs_calls + 1
    /\ UNCHANGED <<fs_stale_load, fs_pc>>
    /\ SchedulerUnchanged

\* stop()
StopCall ==
    /\ fs_pc = "live" /\ fs_calls < MaxSchedulerCalls
    /\ IF fs_running
       THEN /\ fs_scheduler' = "shutdown"
            /\ fs_running' = FALSE
       ELSE UNCHANGED <<fs_scheduler, fs_running>>
    /\ fs_last' = [op |-> "stop", was_running |-> fs_running]
    /\ fs_calls' = fs_calls + 1
    /\ UNCHANGED <<fs_epoch, fs_tasks, fs_stale_load, fs_pc>>
    /\ SchedulerUnchanged

\* the task of the initial load_feeds() runs up to its first await
InitialLoadRun ==
    /\ fs_pc = "live"
    /\ \E i \in DOMAIN fs_tasks :
          /\ fs_tasks[i].kind = "load_feeds" /\ fs_tasks[i].pc = "created"
          /\ fs_tasks' = [fs_tasks EXCEPT ![i].pc = "loading"]
    /\ UNCHANGED <<fs_running, fs_scheduler, fs_epoch, fs_stale_load, fs_last,
                   fs_calls, fs_pc>>
    /\ SchedulerUnchanged

\* ... and returns
InitialLoadReturn ==
    /\ fs_pc = "live"
    /\ \E i \in DOMAIN fs_tasks :
          /\ fs_tasks[i].kind = "load_feeds" /\ fs_tasks[i].pc = "loading"
          /\ fs_tasks' = [fs_tasks EXCEPT ![i].pc = "done"]
    /\ UNCHANGED <<fs_running, fs_scheduler, fs_epoch, fs_stale_load, fs_last,
                   fs_calls, fs_pc>>
    /\ SchedulerUnchanged

\* the task of _refresh_feeds_periodically runs for the first time: it
\* tests self._running and goes to sleep or returns
RefreshLoopEnter ==
    /\ fs_pc = "live"
    /\ \E i \in DOMAIN fs_tasks :
          /\ fs_tasks[i].kind = "refresh" /\ fs_tasks[i].pc = "created"
          /\ fs_tasks' = [fs_tasks EXCEPT ![i].pc = WhileRunning(fs_running)]
    /\ UNCHANGED <<fs_running, fs_scheduler, fs_epoch, fs_stale_load, fs_last,
                   fs_calls, fs_pc>>
    /\ SchedulerUnchanged

\* asyncio.sleep(self._refresh_interval) returns: with self._running set
\* the loop calls load_feeds(), else it tests self._running and returns
RefreshLoopWake ==
    /\ fs_pc = "live"
    /\ \E i \in DOMAIN fs_tasks :
          /\ fs_tasks[i].kind = "refresh" /\ fs_tasks[i].pc = "sleeping"
          /\ IF fs_running
             THEN /\ fs_tasks' = [fs_tasks EXCEPT ![i].pc = "loading"]
                  /\ fs_stale_load' = (fs_stale_load \/ fs_tasks[i].epoch < fs_epoch)
             ELSE /\ fs_tasks' = [fs_tasks EXCEPT ![i].pc = "done"]
                  /\ UNCHANGED fs_stale_load
    /\ UNCHANGED <<fs_running, fs_scheduler, fs_epoch, fs_last, fs_calls, fs_pc>>
    /\ SchedulerUnchanged

\* load_feeds() returns to the loop, which tests self._running again
RefreshLoopLoaded ==
    /\ fs_pc = "live"
    /\ \E i \in DOMAIN fs_tasks :
          /\ fs_tasks[i].kind = "refresh" /\ fs_tasks[i].pc = "loading"
          /\ fs_tasks' = [fs_tasks EXCEPT ![i].pc = WhileRunning(fs_running)]
    /\ UNCHANGED <<fs_running, fs_scheduler, fs_epoch, fs_stale_load, fs_last,
                   fs_calls, fs_pc>>
    /\ SchedulerUnchanged

SchedulerNext ==
    \/ StartCall
    \/ StopCall
    \/ InitialLoadRun
    \/ InitialLoadReturn
    \/ RefreshLoopEnter
    \/ RefreshLoopWake
    \/ RefreshLoopLoaded

SpecScheduler == SchedulerInit /\ [][SchedulerNext]_vars

----------------------------------------------------------------------------
(* Claims about the feed scheduler *)

\* the refresh loops that have not returned
ActiveRefreshLoops ==
    {i \in DOMAIN fs_tasks : fs_tasks[i].kind = "refresh" /\ fs_tasks[i].pc # "done"}

\* is_running() is true exactly after a start() not yet followed by a stop()
RunningIffStarted ==
    IsRunning <=> (fs_last # <<>> /\ fs_last.op = "start")

\* start() on a running scheduler and stop() on a stopped one changed
\* nothing: neither the flag nor the set of tasks
NoOpCalls ==
    /\ (fs_last # <<>> /\ fs_last.op = "start" /\ fs_last.was_running)
         => (fs_running /\ fs_scheduler = "running" /\ Len(fs_tasks) = 2 * fs_epoch)
    /\ (fs_last # <<>> /\ fs_last.op = "stop" /\ ~fs_last.was_running)
         => (~fs_running /\ fs_scheduler # "running")

\* C30: for any sequence of start() and stop() calls, is_running() is true
\* exactly after a start() not yet followed by stop(), the repeated calls
\* are no-ops, at most one refresh loop is active at any time, and no loop
\* of an earlier start() calls load_feeds after the stop() that followed it.
C30_SchedulerLifecycle ==
    /\ RunningIffStarted
    /\ NoOpCalls
    /\ Cardinality(ActiveRefreshLoops) <= 1
    /\ ~fs_stale_load

\* at most one refresh loop is active
AtMostOneRefreshLoop == Cardinality(ActiveRefreshLoops) <= 1

\* no refresh loop of an earlier start() has called load_feeds
NoStaleLoad == ~fs_stale_load

====
